---- MODULE Spec2Model ----
(***************************************************************************)
(* A model of the real-time voice conversation engine of zrobot-mobile:    *)
(*   - the sequenced-audio reorder buffer of the useConversation hook      *)
(*     (audioSeqRef, onAudio) and the PCM playback scheduler of            *)
(*     AudioService (pcmQueue, trimPcmQueue, flushPcmQueue, the monitor);  *)
(*   - the segment/text/board bookkeeping of the hook;                     *)
(*   - the ConversationWebSocket transport (connect, onclose, reconnect);  *)
(*   - the teardown path (disconnect, AudioService.cleanup).               *)
(* The file src/src/hooks/useConversation.ts and src/src/services/audio.ts *)
(* each hold two revisions; the later revision (the second half of each    *)
(* file) is the one modelled.                                              *)
(***************************************************************************)
EXTENDS Integers, Sequences, FiniteSets, TLC

(***************************************************************************)
(* Bounds of the model.                                                    *)
(***************************************************************************)
\* segment ids the server uses: 1..NumSegs
NumSegs == 2
\* sequence numbers of one segment: 0..NumSeqs-1
NumSeqs == 3
\* how many times the network may deliver one (segmentId, seq) chunk
MaxArrivals == 1
\* wall-clock time the playback clock may run ahead of pcmClockStart
MaxClockMs == 700
\* the longest text, in deltas, and the longest finalized list
MaxTextLen == 2
MaxSegments == 2
\* how many WebSocket objects the transport may create
MaxSockets == 6
\* how many times the application calls the hook's disconnect()
MaxDisconnects == 2
VadStepMs == 500
MaxVadClockMs == 2000
MaxChunkSeq == 4
MaxStreams == 3
MaxChunks == 4
MaxReadyCalls == 2
MaxStartWaiters == 2
MaxMicSockets == 2
NumSwitchSeqs == 2
MaxDuplicates == 1
\* server error messages surfaced in one behaviour
MaxErrors == 2

(***************************************************************************)
(* Program constants.                                                      *)
(***************************************************************************)
startThresholdMs == 250
lowWatermarkMs == 120
maxBufferMs == 1000
DefaultSampleRate == 24000
pcmChannels == 1
pcmBitsPerSample == 16
\* the period of the playback monitor timer
MonitorPeriodMs == 50
\* the step of model time
TickMs == 2 * MonitorPeriodMs

maxReconnectAttempts == 3
\* WebSocket close codes: normal closure, and abnormal closure (no close frame)
NormalClosure == 1000
AbnormalClosure == 1006

Null == -1
NoSegment == -1
\* meta.seq === undefined
NoSeq == -1
\* meta.sampleRate === undefined
NoRate == 0

SegIds == 1..NumSegs
Seqs == 0..(NumSeqs - 1)
\* payload sizes in bytes: an empty payload, 100 ms and 600 ms of 24 kHz mono s16
Lens == {0, 4800, 28800}

Max(a, b) == IF a >= b THEN a ELSE b

\* The payload of an audio chunk. The base64 text is opaque to the engine; what
\* the engine reads of it is its emptiness and its decoded length. seg and seq
\* identify the bytes so that the sink's write log can be compared with them.
Data(seg, seq, len) == [seg |-> seg, seq |-> seq, len |-> len]

(***************************************************************************)
(* AudioService: the PCM playback scheduler (src/src/services/audio.ts).   *)
(* The scheduler's fields are the fields of the record P; every method is  *)
(* an operator from the record before the call to the record after it.     *)
(*   clockStart is kept as the time elapsed since pcmClockStart was set    *)
(*   (Date.now() - pcmClockStart), or Null.                                *)
(*   initPending holds, for every maybeStartPcmPlayback call suspended at  *)
(*   `await this.ensurePcmReady()`, the answer its native init will give.  *)
(*   track, sink and lost are the native PCMPlayer module: whether its     *)
(*   AudioTrack exists, the payloads the AudioTrack accepted, in order,    *)
(*   and the payloads write() discarded because no AudioTrack existed.     *)
(*   Native calls run in the order JavaScript issues them, so each is      *)
(*   applied where it is issued; only init's answer arrives later.         *)
(*   dropped is the set of payloads trimPcmQueue discarded.                *)
(***************************************************************************)
PcmInit ==
  [ queue |-> << >>, queuedMs |-> 0, inFlightMs |-> 0, clockStart |-> Null,
    isPlaying |-> FALSE, ready |-> FALSE, initInFlight |-> FALSE,
    monitorTimer |-> FALSE, sampleRate |-> DefaultSampleRate,
    playbackState |-> "idle", initPending |-> << >>,
    track |-> FALSE, sink |-> << >>, lost |-> {}, dropped |-> {} ]

\* PCMPlayerModule.init: release(), then build the AudioTrack unless it fails
nativeInit(P, ok) == [P EXCEPT !.track = ok]

\* PCMPlayerModule.stop: release()
nativeStop(P) == [P EXCEPT !.track = FALSE]

\* PCMPlayerModule.write: `val track = audioTrack ?: return`
nativeWrite(P, data) ==
  IF P.track THEN [P EXCEPT !.sink = Append(@, data)]
             ELSE [P EXCEPT !.lost = @ \cup {data}]

\* durationMs of enqueuePcm: Math.max(1, bytes.length / bytesPerSec * 1000)
DurationMs(len, rate) ==
  Max(1, (len * 1000) \div (rate * pcmChannels * (pcmBitsPerSample \div 8)))

stopPcmMonitor(P) == [P EXCEPT !.monitorTimer = FALSE]

setPlaybackState(P, s) == [P EXCEPT !.playbackState = s]

\* stopPcmPlayback without its stopPcmMonitor() call
stopPcmPlaybackKeepsMonitor(P) ==
  setPlaybackState(
    [nativeStop(P) EXCEPT !.isPlaying = FALSE, !.ready = FALSE,
                          !.inFlightMs = 0, !.queuedMs = 0,
                          !.clockStart = Null, !.queue = << >>],
    "idle")

stopPcmPlayback(P) ==
  setPlaybackState(
    stopPcmMonitor([nativeStop(P) EXCEPT !.isPlaying = FALSE, !.ready = FALSE,
                                         !.inFlightMs = 0, !.queuedMs = 0,
                                         !.clockStart = Null, !.queue = << >>]),
    "idle")

resetPcmPlayer(P) ==
  stopPcmMonitor([nativeStop(P) EXCEPT !.isPlaying = FALSE, !.ready = FALSE,
                                       !.initInFlight = FALSE,
                                       !.inFlightMs = 0, !.queuedMs = 0,
                                       !.clockStart = Null, !.queue = << >>])

updatePcmConfig(P, rate) ==
  LET next == IF rate # NoRate THEN rate ELSE P.sampleRate
  IN IF next # P.sampleRate
       THEN resetPcmPlayer([P EXCEPT !.sampleRate = next])
       ELSE P

\* updateInFlight never crediting the elapsed time
updateInFlightFrozen(P) == P

updateInFlight(P) ==
  IF ~P.isPlaying \/ P.clockStart = Null
    THEN P
    ELSE IF P.clockStart > 0
           THEN [P EXCEPT !.inFlightMs = Max(0, @ - P.clockStart),
                          !.clockStart = 0]
           ELSE P

RECURSIVE flushLoop(_)
flushLoop(P) ==
  IF Len(P.queue) = 0
    THEN P
    ELSE LET item == Head(P.queue)
             Q == updateInFlight([P EXCEPT !.queue = Tail(@)])
         IN flushLoop([nativeWrite(Q, item.data) EXCEPT
                         !.queuedMs = Max(0, @ - item.durationMs),
                         !.inFlightMs = @ + item.durationMs,
                         !.clockStart = IF @ = Null THEN 0 ELSE @])

flushPcmQueue(P) == IF ~P.isPlaying THEN P ELSE flushLoop(P)

RECURSIVE trimPcmQueue(_, _)
trimPcmQueue(P, incomingMs) ==
  IF P.queuedMs + P.inFlightMs + incomingMs > maxBufferMs /\ Len(P.queue) > 0
    THEN trimPcmQueue([P EXCEPT !.queue = Tail(@),
                                !.queuedMs = Max(0, @ - Head(P.queue).durationMs),
                                !.dropped = @ \cup {Head(P.queue).data}],
                      incomingMs)
    ELSE P

\* maybeStartPcmPlayback after ensurePcmReady has answered true
startPcm(P) ==
  flushPcmQueue(
    [setPlaybackState(P, "playing") EXCEPT !.isPlaying = TRUE, !.clockStart = 0,
                                           !.monitorTimer = TRUE])

\* maybeStartPcmPlayback up to its await; ensurePcmReady's answers that need no
\* native call (already ready, or an init already in flight) are taken at once.
\* ok is the answer the native init gives if this call issues one.
maybeStartPcmPlayback(P, ok) ==
  IF P.queuedMs + P.inFlightMs < startThresholdMs
    THEN P
    ELSE IF P.ready
           THEN startPcm(P)
           ELSE IF P.initInFlight
                  THEN P
                  ELSE [nativeInit(P, ok) EXCEPT !.initInFlight = TRUE,
                                                 !.initPending = Append(@, ok)]

\* the rest of maybeStartPcmPlayback, run when the oldest pending pcmPlayer.init
\* resolves or rejects: ensurePcmReady's try/catch/finally, then the start
pcmInitSettled(P) ==
  LET ok == Head(P.initPending)
      Q == [P EXCEPT !.initPending = Tail(@),
                     !.ready = IF ok THEN TRUE ELSE @,
                     !.initInFlight = FALSE]
  IN IF ok THEN startPcm(Q) ELSE Q

enqueuePcm(P, data, ok) ==
  LET durationMs == DurationMs(data.len, P.sampleRate)
      T == trimPcmQueue(P, durationMs)
      Q == [T EXCEPT !.queue = Append(@, [data |-> data, durationMs |-> durationMs]),
                     !.queuedMs = @ + durationMs]
  IN IF ~Q.isPlaying THEN maybeStartPcmPlayback(Q, ok) ELSE flushPcmQueue(Q)

\* queueAudio on Android with the native PCMPlayer module loaded and a PCM format
queueAudio(P, data, rate, ok) == enqueuePcm(updatePcmConfig(P, rate), data, ok)

\* the body of the setInterval callback of startPcmMonitor
pcmMonitorTick(P) ==
  IF ~P.isPlaying
    THEN stopPcmMonitor(P)
    ELSE LET Q == updateInFlight(P)
             totalMs == Q.queuedMs + Q.inFlightMs
         IN IF totalMs <= 0
              THEN stopPcmPlayback(Q)
              ELSE IF totalMs < lowWatermarkMs /\ Q.queuedMs = 0
                     THEN stopPcmPlayback(Q)
                     ELSE Q

(***************************************************************************)
(* useConversation: the reorder buffer audioSeqRef and onAudio             *)
(* (src/src/hooks/useConversation.ts).                                     *)
(***************************************************************************)
AudioSeqInit(segmentId) == [segmentId |-> segmentId, nextSeq |-> 0, buffer |-> << >>]

\* Map.set and Map.delete on audioSeqRef.current.buffer
bufferSet(b, seq, data) ==
  [k \in (DOMAIN b) \cup {seq} |-> IF k = seq THEN data ELSE b[k]]
bufferDelete(b, seq) == [k \in (DOMAIN b) \ {seq} |-> b[k]]

\* the while loop of onAudio: R is audioSeqRef.current, P the AudioService
RECURSIVE drainBuffer(_, _, _, _)
drainBuffer(R, P, rate, ok) ==
  IF R.nextSeq \in DOMAIN R.buffer
    THEN LET next == R.buffer[R.nextSeq]
             R2 == [R EXCEPT !.buffer = bufferDelete(@, R.nextSeq),
                             !.nextSeq = @ + 1]
         IN drainBuffer(R2, IF next.len > 0 THEN queueAudio(P, next, rate, ok) ELSE P,
                        rate, ok)
    ELSE [ref |-> R, pcm |-> P]

\* onAudio without the reorder buffer: every chunk is queued as it arrives
onAudioUnordered(R, P, segmentId, seq, data, rate, ok) ==
  LET R1 == IF segmentId # R.segmentId THEN AudioSeqInit(segmentId) ELSE R
  IN [ref |-> [R1 EXCEPT !.nextSeq = IF seq = NoSeq THEN @ ELSE Max(@, seq + 1)],
      pcm |-> queueAudio(P, data, rate, ok)]

\* onAudio, on audioSeqRef.current and the AudioService
onAudio(R, P, segmentId, seq, data, rate, ok) ==
  LET R1 == IF segmentId # R.segmentId THEN AudioSeqInit(segmentId) ELSE R
  IN IF seq = NoSeq
       THEN [ref |-> R1, pcm |-> queueAudio(P, data, rate, ok)]
       ELSE drainBuffer([R1 EXCEPT !.buffer = bufferSet(@, seq, data)], P, rate, ok)

(***************************************************************************)
(* AudioService: the capture side and the native PCMRecorder module        *)
(* (src/src/services/audio.ts, PCMPlayerPackage.kt).  R is the record of   *)
(* the capture fields.                                                     *)
(*   audioRecord and nativeRecording are the native module: whether its    *)
(*   AudioRecord exists and whether its reader thread runs.                *)
(*   pending is the queue of the native calls whose promise JavaScript is  *)
(*   still awaiting, oldest first; the module answers them in order.  An   *)
(*   entry is [kind, call, ok]: kind is "stop", "start" or "release", call *)
(*   the disconnect invocation awaiting it (0 for a start), ok the answer. *)
(*   entry is [kind, call, ok, frames]: kind is "init", "stop", "start" or *)
(*   "release", call the disconnect invocation awaiting it (0 otherwise),  *)
(*   ok the answer, frames whether the reader thread ran when the call     *)
(*   reached the module, so that frames it emitted before the call are     *)
(*   delivered ahead of the answer.                                        *)
(*   startAwaitsInit counts the startRecording calls suspended at          *)
(*   `await this.initInFlight`.                                            *)
(*   now is Date.now() as processVAD reads it.                             *)
(*   History, read by the properties only:                                 *)
(*   releaseCalls counts the calls of recorderModule.release(),            *)
(*   handleReleases the AudioRecord.release() calls they led to,           *)
(*   initCalls the calls of recorderModule.init(), handleInits the         *)
(*   AudioRecord objects they built, readyCalls the calls of               *)
(*   ensureRecorderReady and sharedCalls those that found an init in       *)
(*   flight;                                                               *)
(*   session numbers the recordings startRecording began;                  *)
(*   runStart is the time of the first frame of the current run of silence *)
(*   frames received while speaking (Null outside such a run);             *)
(*   lastEvent is the last VAD callback of this recording ("none" before   *)
(*   the first), and stamp flips whenever a VAD callback runs.             *)
(***************************************************************************)
SILENCE_THRESHOLD == -35
SILENCE_DURATION == 1500
NoStream == 0

\* the levels of the captured frames: just below, at and just above the threshold
FrameLevels == {SILENCE_THRESHOLD - 1, SILENCE_THRESHOLD, SILENCE_THRESHOLD + 1}

RecorderInit ==
  [ recordingState |-> "recording", recorderReady |-> TRUE, initInFlight |-> FALSE,
    isSpeaking |-> FALSE, silenceStartTime |-> Null, vadEnabled |-> TRUE, now |-> 0,
    audioRecord |-> TRUE, nativeRecording |-> TRUE, pending |-> << >>,
    startAwaitsInit |-> 0,
    releaseCalls |-> 0, handleReleases |-> 0, initCalls |-> 1, handleInits |-> 1,
    readyCalls |-> 1, sharedCalls |-> 0,
    session |-> 1, runStart |-> Null, lastEvent |-> "none", stamp |-> 0 ]

\* the capture fields of a new AudioService, the native module idle
RecorderFresh ==
  [ RecorderInit EXCEPT !.recordingState = "idle", !.recorderReady = FALSE,
                        !.audioRecord = FALSE, !.nativeRecording = FALSE,
                        !.initCalls = 0, !.handleInits = 0, !.readyCalls = 0,
                        !.session = 0 ]

Awaited(kind, call, ok, frames) ==
  [kind |-> kind, call |-> call, ok |-> ok, frames |-> frames]

\* PCMRecorderModule.init: rejected while the reader thread runs; else the
\* module stops and releases what it holds and builds a new AudioRecord,
\* which succeeds (ok) or not
nativeRecInit(R, ok) ==
  IF R.nativeRecording
    THEN [R EXCEPT !.initCalls = @ + 1,
                   !.pending = Append(@, Awaited("init", 0, FALSE, TRUE))]
    ELSE [R EXCEPT !.initCalls = @ + 1,
                   !.handleReleases = IF R.audioRecord THEN @ + 1 ELSE @,
                   !.audioRecord = ok,
                   !.handleInits = IF ok THEN @ + 1 ELSE @,
                   !.pending = Append(@, Awaited("init", 0, ok, FALSE))]

\* ensureRecorderReady without the check of initInFlight
ensureRecorderReadyNoDedup(R, ok) ==
  LET R1 == [R EXCEPT !.readyCalls = @ + 1,
                      !.sharedCalls = IF R.initInFlight THEN @ + 1 ELSE @]
  IN IF R.recorderReady THEN R1
     ELSE nativeRecInit([R1 EXCEPT !.initInFlight = TRUE], ok)

\* ensureRecorderReady up to `await this.recorderModule!.init(...)`
ensureRecorderReady(R, ok) ==
  LET R1 == [R EXCEPT !.readyCalls = @ + 1,
                      !.sharedCalls = IF R.initInFlight THEN @ + 1 ELSE @]
  IN IF R.recorderReady THEN R1
     ELSE IF R.initInFlight THEN R1
     ELSE nativeRecInit([R1 EXCEPT !.initInFlight = TRUE], ok)

\* PCMRecorderModule.start: rejects without an AudioRecord
nativeRecStart(R) ==
  IF R.audioRecord
    THEN [R EXCEPT !.nativeRecording = TRUE,
                   !.pending = Append(@, Awaited("start", 0, TRUE, R.nativeRecording))]
    ELSE [R EXCEPT !.pending = Append(@, Awaited("start", 0, FALSE, FALSE))]

\* PCMRecorderModule.stop: stopInternal(false)
nativeRecStop(R, call) ==
  [R EXCEPT !.nativeRecording = FALSE,
            !.pending = Append(@, Awaited("stop", call, TRUE, R.nativeRecording))]

\* PCMRecorderModule.release: stopInternal(true)
nativeRecRelease(R, call) ==
  [R EXCEPT !.nativeRecording = FALSE,
            !.handleReleases = IF R.audioRecord THEN @ + 1 ELSE @,
            !.audioRecord = FALSE,
            !.releaseCalls = @ + 1,
            !.pending = Append(@, Awaited("release", call, TRUE, R.nativeRecording))]

\* frames reach JavaScript in the order of the module's answers: those of a
\* running reader thread, or those emitted before the oldest awaited call
FramesInFlight(R) ==
  IF R.pending = << >> THEN R.nativeRecording ELSE Head(R.pending).frames

stopVAD(R) == [R EXCEPT !.isSpeaking = FALSE, !.silenceStartTime = Null]

\* processVAD without the reset of silenceStartTime on a speech frame
processVADKeepsSilenceStart(R, db) ==
  IF ~R.vadEnabled THEN R
  ELSE IF db > SILENCE_THRESHOLD
    THEN [R EXCEPT !.isSpeaking = TRUE]
  ELSE IF R.isSpeaking
    THEN IF R.silenceStartTime = Null
           THEN [R EXCEPT !.silenceStartTime = R.now]
         ELSE IF R.now - R.silenceStartTime >= SILENCE_DURATION
           THEN [R EXCEPT !.isSpeaking = FALSE, !.silenceStartTime = Null]
         ELSE R
  ELSE R

\* processVAD on a frame of level db (dBFS); onSpeechStart runs when
\* isSpeaking turns true, onSilenceDetected when it turns false
processVAD(R, db) ==
  IF ~R.vadEnabled THEN R
  ELSE IF db > SILENCE_THRESHOLD
    THEN [R EXCEPT !.isSpeaking = TRUE, !.silenceStartTime = Null]
  ELSE IF R.isSpeaking
    THEN IF R.silenceStartTime = Null
           THEN [R EXCEPT !.silenceStartTime = R.now]
         ELSE IF R.now - R.silenceStartTime >= SILENCE_DURATION
           THEN [R EXCEPT !.isSpeaking = FALSE, !.silenceStartTime = Null]
         ELSE R
  ELSE R

\* startRecording from the check of recorderReady up to
\* `await this.recorderModule?.start?.()`
startRecordingReady(R) ==
  IF ~R.recorderReady THEN R
  ELSE nativeRecStart(stopVAD([R EXCEPT !.recordingState = "recording",
                                        !.session = @ + 1, !.lastEvent = "none"]))

\* the startRecording calls suspended at `await this.initInFlight` go on, one
\* after the other
RECURSIVE resumeStarts(_, _)
resumeStarts(R, n) ==
  IF n = 0 THEN R ELSE resumeStarts(startRecordingReady(R), n - 1)

\* startRecording without the early return taken when already recording
startRecordingAgain(R) ==
  IF R.initInFlight THEN [R EXCEPT !.startAwaitsInit = @ + 1]
  ELSE startRecordingReady(R)

\* startRecording up to its first await
startRecording(R) ==
  IF R.recordingState = "recording" THEN R
  ELSE IF R.initInFlight THEN [R EXCEPT !.startAwaitsInit = @ + 1]
  ELSE startRecordingReady(R)

\* the hook's startListening up to `await audioRef.current.startRecording()`
startListening(audioRef, R) ==
  IF ~audioRef \/ R.recordingState = "recording" THEN R ELSE startRecording(R)

\* the callbacks' `if (autoConnect && !audioRef.current?.isRecording())
\* startListening()`
autoListen(autoConnect, audioRef, R) ==
  IF autoConnect THEN startListening(audioRef, R) ELSE R

\* stopRecording after `await this.recorderModule?.stop?.()`
stopRecordingSettled(R) == [stopVAD(R) EXCEPT !.recordingState = "idle"]

(***************************************************************************)
(* ConversationWebSocket (src/unnamed/part_002).  T is the record of its   *)
(* fields.  sockets holds the state of every WebSocket it created, in      *)
(* creation order ("connecting", "open", "closing", "closed"); ws is the   *)
(* index of this.ws or Null; timers counts the pending reconnect           *)
(* setTimeout callbacks.                                                   *)
(*   intentional: disconnect() was called; lateSockets: sockets created    *)
(*   after that; reconnects: sockets created by the reconnect timer since  *)
(*   the last open; normalRetry: a close with code 1000 scheduled a retry. *)
(*   promise is the state of the Promise the latest connect() call         *)
(*   returned ("none" before the first call), promiseSocket the socket     *)
(*   whose handlers hold its resolve and reject (NoSocket when connect()   *)
(*   resolved it at once).                                                 *)
(***************************************************************************)
\* no socket
NoSocket == 0

TransportInit ==
  [ sockets |-> <<"open">>, ws |-> 1, connectionState |-> "connected",
    pingInterval |-> TRUE, reconnectAttempts |-> 0, timers |-> 0,
    intentional |-> FALSE, lateSockets |-> 0, reconnects |-> 0,
    normalRetry |-> FALSE, promise |-> "resolved", promiseSocket |-> 1 ]

\* a ConversationWebSocket just constructed
TransportFresh ==
  [ TransportInit EXCEPT !.sockets = << >>, !.ws = Null,
                         !.connectionState = "disconnected", !.pingInterval = FALSE,
                         !.promise = "none", !.promiseSocket = NoSocket ]

\* this.ws && this.ws.readyState === WebSocket.OPEN
wsIsOpen(T) == T.ws # Null /\ T.sockets[T.ws] = "open"

\* connect() creating a socket even while this.ws is open
connectAlways(T) ==
  [T EXCEPT !.connectionState = "connecting",
            !.sockets = Append(@, "connecting"),
            !.ws = Len(T.sockets) + 1,
            !.lateSockets = IF T.intentional THEN @ + 1 ELSE @,
            !.reconnects = @ + 1,
            !.promise = "pending", !.promiseSocket = Len(T.sockets) + 1]

\* connect()
connect(T) ==
  IF wsIsOpen(T) THEN [T EXCEPT !.promise = "resolved", !.promiseSocket = NoSocket]
  ELSE [T EXCEPT !.connectionState = "connecting",
                 !.sockets = Append(@, "connecting"),
                 !.ws = Len(T.sockets) + 1,
                 !.lateSockets = IF T.intentional THEN @ + 1 ELSE @,
                 !.reconnects = @ + 1,
                 !.promise = "pending", !.promiseSocket = Len(T.sockets) + 1]

\* ws.onopen
onopen(T, i) ==
  [T EXCEPT !.sockets[i] = "open", !.connectionState = "connected",
            !.reconnectAttempts = 0, !.pingInterval = TRUE, !.reconnects = 0,
            !.promise = IF T.promiseSocket = i /\ @ = "pending" THEN "resolved" ELSE @]

\* the reconnect condition of ws.onclose, with a <= for the <
ShouldReconnectInclusive(code, attempts) ==
  code # NormalClosure /\ attempts <= maxReconnectAttempts

\* the reconnect condition of ws.onclose
ShouldReconnect(code, attempts) ==
  code # NormalClosure /\ attempts < maxReconnectAttempts

\* ws.onclose
onclose(T, i, code) ==
  LET T1 == [T EXCEPT !.sockets[i] = "closed", !.connectionState = "disconnected",
                      !.pingInterval = FALSE]
  IN IF ShouldReconnect(code, T.reconnectAttempts)
       THEN [T1 EXCEPT !.reconnectAttempts = @ + 1, !.timers = @ + 1,
                       !.normalRetry = (@ \/ code = NormalClosure)]
       ELSE T1

\* ws.onerror
onerror(T, i) ==
  [T EXCEPT !.connectionState = "error",
            !.promise = IF T.promiseSocket = i /\ @ = "pending" THEN "rejected" ELSE @]

\* ConversationWebSocket.disconnect
wsDisconnect(T) ==
  [T EXCEPT !.pingInterval = FALSE,
            !.sockets = IF T.ws # Null /\ @[T.ws] \in {"connecting", "open"}
                          THEN [@ EXCEPT ![T.ws] = "closing"] ELSE @,
            !.ws = Null,
            !.connectionState = "disconnected",
            !.intentional = TRUE]

(***************************************************************************)
(* State.                                                                  *)
(***************************************************************************)
VARIABLES
  \* AudioService (playback side) and the hook's refs
  audioSeqRef,       \* audioSeqRef.current: [segmentId, nextSeq, buffer]
  pcm,               \* the PCM scheduler fields of AudioService, see PcmInit
  aiSpeakingRef,     \* aiSpeakingRef.current
  lastSent,          \* type of the last envelope the hook handed to the socket
  \* the hook's React state
  status, currentSegmentId, currentSpeech, displayedText, aiText, aiFullText,
  segments, boardMarkup,
  recorder,          \* the capture fields of AudioService, see RecorderInit
  transport,         \* the ConversationWebSocket, see TransportInit
  hookRefs,          \* audioRef.current and wsRef.current are set; connectionStateRef
  disconnectPc,      \* where each invocation of the hook's disconnect() stands
  \* history of the run, read by the properties only
  arrivals,          \* how often each (segmentId, seq) chunk was delivered
  emptyKeys,         \* the chunks delivered with an empty payload
  everHeld,          \* some chunk arrived ahead of its turn and was held
  disturbed,         \* interrupt() or a segment_start ran after audio had arrived
  interruptedSegs,   \* segments that were tracked or queued when interrupt() ran
  staleWrites,       \* payloads written to the sink while their segment was interrupted
  boardLog,          \* the segment ids of the board events since the list was last cleared
  stopStreak         \* how many of the last steps were calls of stopPlayback (0, 1, 2)

playbackVars == <<audioSeqRef, pcm, aiSpeakingRef, lastSent>>
textVars == <<currentSpeech, displayedText, aiText, aiFullText>>
stateVars == <<status, currentSegmentId, textVars, segments, boardMarkup>>
arrivalVars == <<arrivals, emptyKeys, everHeld>>
historyVars == <<arrivalVars, disturbed, interruptedSegs, staleWrites, boardLog, stopStreak>>
sessionVars == <<transport, hookRefs, disconnectPc>>
vars == <<playbackVars, stateVars, recorder, sessionVars, historyVars>>

\* the segment whose audio the playback specification delivers
AudioSegs == {1}
ChunkKeys == SegIds \X (Seqs \cup {NoSeq})

InitPlayback ==
  /\ audioSeqRef = AudioSeqInit(NoSegment)
  /\ pcm = PcmInit
  /\ aiSpeakingRef = FALSE
  /\ lastSent = "client_hello"

\* the hook's state once the socket is connected and client_hello is sent
InitState ==
  /\ status = "listening"
  /\ currentSegmentId = NoSegment
  /\ currentSpeech = << >> /\ displayedText = << >>
  /\ aiText = << >> /\ aiFullText = << >>
  /\ segments = << >> /\ boardMarkup = << >>

(***************************************************************************)
(* The hook's refs.  streamId is streamIdRef.current, a number standing    *)
(* for the string `u${Date.now()}` (NoStream for ''), sequence is          *)
(* sequenceRef.current; initializing tells that initialize() has not yet   *)
(* gone past the audio service's initialize().  History, read by the       *)
(* properties only: streams                                                *)
(* counts the stream ids made so far, streamSession is the recording whose *)
(* start made the current stream id, announced holds the stream ids whose  *)
(* mic_start went out on the socket, ended those whose mic_end went out,   *)
(* sent lists the user_audio_chunk envelopes that went out on the socket,  *)
(* each with the recording it was captured in and the recording its stream *)
(* id was made for.                                                        *)
(* The record also keeps two fields of the hook's state, closeReason and   *)
(* error (NoMessage for null), and reported, the messages handed to the    *)
(* onError callback of the screen, in call order.                          *)
(* autoConnect is the hook's option of that name.  connectAwaited is the   *)
(* socket whose open or error settles the connect() promise initialize()   *)
(* awaits (NoSocket when it awaits none).  helloCount and micStartCount    *)
(* count the client_hello and mic_start envelopes that went out on the     *)
(* transport's current socket.                                             *)
(***************************************************************************)
NoMessage == "none"
InitFailedMessage == "init_failed"
\* the messages of onClose: '由于长时间未说话，对话已自动结束',
\* '由于长时间无操作，对话已自动结束' and '连接已断开，请重新开始对话'
ListeningTimeoutMessage == "listening_timeout_ended"
IdleTimeoutMessage == "idle_timeout_ended"
ConnectionLostMessage == "connection_lost_restart"

HookRefsInit ==
  [ audioRef |-> TRUE, wsRef |-> TRUE, connectionState |-> "connected",
    streamId |-> 1, sequence |-> 1,
    initializing |-> FALSE,
    streams |-> 1, streamSession |-> 1, announced |-> {1}, ended |-> {}, sent |-> << >>,
    closeReason |-> NoMessage, error |-> NoMessage, reported |-> << >>,
    autoConnect |-> TRUE, connectAwaited |-> NoSocket,
    helloCount |-> 1, micStartCount |-> 1 ]

\* the refs while initialize() awaits audioRef.current.initialize()
HookRefsFresh ==
  [ HookRefsInit EXCEPT !.wsRef = FALSE, !.connectionState = "disconnected",
                        !.streamId = NoStream, !.initializing = TRUE,
                        !.streams = 0, !.streamSession = 0, !.announced = {},
                        !.helloCount = 0, !.micStartCount = 0 ]

\* the session once initialize() has finished: recorder initialised and
\* recording, socket open, no disconnect() called yet
InitSession ==
  /\ recorder = RecorderInit
  /\ transport = TransportInit
  /\ hookRefs = HookRefsInit
  /\ disconnectPc = [k \in 1..MaxDisconnects |-> "ready"]

InitHistory ==
  /\ arrivals = [k \in ChunkKeys |-> 0]
  /\ emptyKeys = {}
  /\ everHeld = FALSE
  /\ disturbed = FALSE
  /\ interruptedSegs = {}
  /\ staleWrites = {}
  /\ boardLog = << >>
  /\ stopStreak = 0

Init == InitPlayback /\ InitState /\ InitSession /\ InitHistory

AnyArrived == \E k \in ChunkKeys : arrivals[k] > 0

\* the payloads a step appended to the sink
NewWrites(P, Q) == {Q.sink[i] : i \in (Len(P.sink) + 1)..Len(Q.sink)}

\* bookkeeping common to every step that may write to the sink
Written(Q) ==
  staleWrites' = staleWrites \cup {d \in NewWrites(pcm, Q) : d.seg \in interruptedSegs}

(***************************************************************************)
(* Actions of the playback path.                                           *)
(***************************************************************************)
\* some socket of the transport can still deliver a server message
Receiving == \E i \in 1..Len(transport.sockets) : transport.sockets[i] \in {"open", "closing"}

\* server audio_chunk -> handleMessage -> the hook's onAudio
Deliver(segmentId, seq, len, rate) ==
  /\ Receiving
  /\ \E ok \in BOOLEAN :
     LET r == onAudio(audioSeqRef, pcm, segmentId, seq, Data(segmentId, seq, len),
                      rate, ok)
         Q == IF hookRefs.audioRef THEN r.pcm ELSE pcm
     IN /\ audioSeqRef' = r.ref
        /\ pcm' = Q
        /\ Written(Q)
        /\ everHeld' = (everHeld \/ seq \in DOMAIN r.ref.buffer)
  /\ currentSegmentId' = segmentId
  /\ arrivals' = [arrivals EXCEPT ![<<segmentId, seq>>] = @ + 1]
  /\ emptyKeys' = IF len = 0 THEN emptyKeys \cup {<<segmentId, seq>>} ELSE emptyKeys
  /\ stopStreak' = 0
  /\ UNCHANGED <<aiSpeakingRef, lastSent, status, textVars, segments, boardMarkup,
                 recorder, sessionVars, disturbed, interruptedSegs, boardLog>>

\* a chunk not delivered before (MaxArrivals times at most) arrives
AudioChunk(segmentId, seq, len, rate) ==
  /\ arrivals[<<segmentId, seq>>] < MaxArrivals
  /\ Deliver(segmentId, seq, len, rate)

\* a chunk delivered before arrives again
DuplicateChunk(segmentId, seq, len, rate) ==
  /\ arrivals[<<segmentId, seq>>] >= MaxArrivals
  /\ arrivals[<<segmentId, seq>>] < MaxArrivals + MaxDuplicates
  /\ Deliver(segmentId, seq, len, rate)

\* pcmPlayer.init settles and the suspended maybeStartPcmPlayback resumes
PcmInitSettled ==
  /\ Len(pcm.initPending) > 0
  /\ pcm' = pcmInitSettled(pcm)
  /\ Written(pcm')
  /\ stopStreak' = 0
  /\ UNCHANGED <<audioSeqRef, aiSpeakingRef, lastSent, stateVars, recorder,
                 sessionVars, arrivalVars, disturbed, interruptedSegs, boardLog>>

\* wall-clock time passes
ClockTick ==
  /\ pcm.clockStart # Null
  /\ pcm.clockStart + TickMs <= MaxClockMs
  /\ pcm' = [pcm EXCEPT !.clockStart = @ + TickMs]
  /\ stopStreak' = 0
  /\ UNCHANGED <<audioSeqRef, aiSpeakingRef, lastSent, stateVars, recorder,
                 sessionVars, arrivalVars, disturbed, interruptedSegs, staleWrites,
                 boardLog>>

\* the interval timer of startPcmMonitor fires; a stopPcmPlayback in it reports
\* 'idle' to the hook's onPlaybackStateChange, which starts listening
PcmMonitor ==
  /\ pcm.monitorTimer
  /\ pcm' = pcmMonitorTick(pcm)
  /\ recorder' = IF pcm.isPlaying /\ ~pcm'.isPlaying
                   THEN autoListen(hookRefs.autoConnect, hookRefs.audioRef, recorder)
                   ELSE recorder
  /\ stopStreak' = 0
  /\ UNCHANGED <<audioSeqRef, aiSpeakingRef, lastSent, stateVars, sessionVars,
                 arrivalVars, disturbed, interruptedSegs, staleWrites, boardLog>>

\* the segments with audio in the reorder buffer or the scheduler's queue
TrackedSegs ==
  ({audioSeqRef.segmentId} \cap SegIds)
    \cup {pcm.queue[i].data.seg : i \in 1..Len(pcm.queue)}

\* AudioService.stopPlayback doing nothing
stopPlaybackSkipped(P) == P

\* AudioService.stopPlayback
stopPlayback(P) == stopPcmPlayback(P)

\* the hook's interrupt(): sendInterrupt, stopPlayback (whose 'idle' report
\* starts listening), clear the flag, set the status, startListening
Interrupt ==
  /\ hookRefs.wsRef /\ hookRefs.audioRef
  /\ lastSent' = IF wsIsOpen(transport) THEN "interrupt" ELSE lastSent
  /\ pcm' = stopPlayback(pcm)
  /\ aiSpeakingRef' = FALSE
  /\ status' = "listening"
  /\ recorder' = startListening(hookRefs.audioRef, recorder)
  /\ interruptedSegs' = interruptedSegs \cup TrackedSegs
  /\ disturbed' = (disturbed \/ AnyArrived)
  /\ stopStreak' = IF stopStreak < 2 THEN stopStreak + 1 ELSE 2
  /\ UNCHANGED <<audioSeqRef, currentSegmentId, textVars, segments, boardMarkup,
                 sessionVars, arrivalVars, staleWrites, boardLog>>

\* onSegmentStart also dropping the finalized segments and the board markup
SegmentStartClearsSegments(segmentId) ==
  /\ Receiving
  /\ audioSeqRef' = AudioSeqInit(segmentId)
  /\ currentSegmentId' = segmentId
  /\ currentSpeech' = << >> /\ displayedText' = << >>
  /\ aiText' = << >> /\ aiFullText' = << >>
  /\ segments' = << >> /\ boardMarkup' = << >>
  /\ interruptedSegs' = interruptedSegs \ {segmentId}
  /\ disturbed' = (disturbed \/ AnyArrived)
  /\ stopStreak' = 0
  /\ UNCHANGED <<pcm, aiSpeakingRef, lastSent, status,
                 recorder, sessionVars, arrivalVars, staleWrites, boardLog>>

\* server segment_start -> onSegmentStart
SegmentStart(segmentId) ==
  /\ Receiving
  /\ audioSeqRef' = AudioSeqInit(segmentId)
  /\ currentSegmentId' = segmentId
  /\ currentSpeech' = << >> /\ displayedText' = << >>
  /\ aiText' = << >> /\ aiFullText' = << >>
  /\ interruptedSegs' = interruptedSegs \ {segmentId}
  /\ disturbed' = (disturbed \/ AnyArrived)
  /\ stopStreak' = 0
  /\ UNCHANGED <<pcm, aiSpeakingRef, lastSent, status, segments, boardMarkup,
                 recorder, sessionVars, arrivalVars, staleWrites, boardLog>>

\* server state -> onStateChange
StateChange(serverState) ==
  /\ Receiving
  /\ status' = serverState
  /\ IF serverState = "processing"
       THEN /\ aiText' = << >> /\ aiFullText' = << >>
            /\ segments' = << >> /\ boardMarkup' = << >>
            /\ currentSpeech' = << >> /\ displayedText' = << >>
            /\ currentSegmentId' = NoSegment
       ELSE UNCHANGED <<textVars, segments, boardMarkup, currentSegmentId>>
  /\ aiSpeakingRef' = IF serverState = "speaking" THEN TRUE
                      ELSE IF serverState = "idle" THEN FALSE
                      ELSE aiSpeakingRef
  /\ recorder' = IF serverState = "idle"
                   THEN autoListen(hookRefs.autoConnect, hookRefs.audioRef, recorder)
                   ELSE recorder
  /\ boardLog' = IF serverState = "processing" THEN << >> ELSE boardLog
  /\ stopStreak' = 0
  /\ UNCHANGED <<audioSeqRef, pcm, lastSent, sessionVars, arrivalVars, disturbed,
                 interruptedSegs, staleWrites>>

\* the hook's onAudioData: a user_audio_chunk with the next sequence number
\* while the transport reports connected and a stream id is set; sendEnvelope
\* drops it unless the socket is open
onAudioData(H, T, session) ==
  IF H.wsRef /\ T.connectionState = "connected" /\ H.streamId # NoStream
    THEN [H EXCEPT !.sequence = @ + 1,
                   !.sent = IF wsIsOpen(T)
                              THEN Append(@, [streamId |-> H.streamId, seq |-> H.sequence,
                                              session |-> session,
                                              streamSession |-> H.streamSession])
                              ELSE @]
    ELSE H

\* the native module delivers a frame of level db: the listener bound by
\* startRecording drops it unless recording, else hands it to onAudioData and
\* to processVAD, whose onSpeechStart sets the status 'listening' and whose
\* onSilenceDetected leaves the hook's state alone
Frame(db) ==
  /\ recorder.recordingState = "recording"
  /\ FramesInFlight(recorder)
  /\ hookRefs.sequence <= MaxChunkSeq
  /\ Len(hookRefs.sent) < MaxChunks
  /\ LET R1 == processVAD(recorder, db)
         started == ~recorder.isSpeaking /\ R1.isSpeaking
         ended == recorder.isSpeaking /\ ~R1.isSpeaking
     IN /\ recorder' =
             [R1 EXCEPT !.runStart = IF db > SILENCE_THRESHOLD \/ ~recorder.isSpeaking \/ ended
                                       THEN Null
                                     ELSE IF @ = Null THEN recorder.now ELSE @,
                        !.lastEvent = IF started THEN "start"
                                      ELSE IF ended THEN "silence" ELSE @,
                        !.stamp = IF started \/ ended THEN 1 - @ ELSE @]
        /\ status' = IF started THEN "listening" ELSE status
  /\ hookRefs' = onAudioData(hookRefs, transport, recorder.session)
  /\ lastSent' = IF Len(hookRefs'.sent) > Len(hookRefs.sent) THEN "user_audio_chunk"
                 ELSE lastSent
  /\ stopStreak' = 0
  /\ UNCHANGED <<audioSeqRef, pcm, aiSpeakingRef, currentSegmentId, textVars, segments,
                 boardMarkup, transport, disconnectPc, arrivalVars, disturbed,
                 interruptedSegs, staleWrites, boardLog>>

\* a frame above the silence threshold arrives while no speech is in
\* progress: isSpeaking is set and the hook's onSpeechStart runs
SpeechStart ==
  /\ ~recorder.isSpeaking
  /\ \E db \in FrameLevels : db > SILENCE_THRESHOLD /\ Frame(db)

\* Date.now() advances
VadTick ==
  /\ recorder.now + VadStepMs <= MaxVadClockMs
  /\ recorder' = [recorder EXCEPT !.now = @ + VadStepMs]
  /\ stopStreak' = 0
  /\ UNCHANGED <<playbackVars, stateVars, sessionVars, arrivalVars, disturbed,
                 interruptedSegs, staleWrites, boardLog>>

ServerStates == {"idle", "listening", "processing", "speaking"}

NextPlayback ==
  \/ \E k \in AudioSegs \X (Seqs \cup {NoSeq}), len \in Lens :
        AudioChunk(k[1], k[2], len, NoRate)
  \/ PcmInitSettled
  \/ ClockTick
  \/ PcmMonitor
  \/ Interrupt
  \/ \E s \in AudioSegs : SegmentStart(s)

SpecPlayback == Init /\ [][NextPlayback]_vars

(***************************************************************************)
(* Properties of the playback path (specification SpecPlayback).           *)
(***************************************************************************)
SinkSeqs == [i \in 1..Len(pcm.sink) |-> pcm.sink[i].seq]
QueueSeqs == [i \in 1..Len(pcm.queue) |-> pcm.queue[i].data.seq]
Range(f) == {f[i] : i \in DOMAIN f}
StrictlyIncreasing(f) == \A i, j \in DOMAIN f : i < j => f[i] < f[j]

\* the elements of a finite set of numbers, in increasing order
RECURSIVE Ascending(_)
Ascending(S) ==
  IF S = {} THEN << >>
  ELSE LET m == CHOOSE x \in S : \A y \in S : x <= y
       IN <<m>> \o Ascending(S \ {m})

\* only chunks of segment S were delivered, each at most once, all sequenced,
\* and neither interrupt() nor a segment_start cut the segment
SingleSegment(S) ==
  /\ \A k \in ChunkKeys : arrivals[k] <= 1
  /\ \A k \in ChunkKeys : (k[1] # S \/ k[2] = NoSeq) => arrivals[k] = 0
  /\ ~disturbed

\* exactly the chunks 0..n-1 of segment S were delivered
GapFree(S, n) == \A q \in Seqs : arrivals[<<S, q>>] = (IF q < n THEN 1 ELSE 0)

\* the sequence numbers of segment S that onAudio handed to queueAudio
Handed(S) == {q \in Seqs : q < audioSeqRef.nextSeq /\ <<S, q>> \notin emptyKeys}

\* C1 as stated: once the chunks 0..n-1 of a single segment have each arrived
\* exactly once, in any order, and the scheduler holds nothing back (nothing
\* queued, no player initialisation awaited), the sink has received exactly the
\* chunks 0, 1, ..., n-1 in that order (an empty payload has no bytes to write).
C1_SinkIsWholeSegment ==
  \A S \in AudioSegs, n \in 1..NumSeqs :
    (SingleSegment(S) /\ GapFree(S, n) /\ Len(pcm.queue) = 0 /\ Len(pcm.initPending) = 0)
      => SinkSeqs = Ascending({q \in 0..(n - 1) : <<S, q>> \notin emptyKeys})

\* C1 as amended: for a single segment whose chunks each arrive at most once, in
\* any order, the reorder buffer hands the chunks to the scheduler in sequence
\* order up to the first missing one, the chunks written to the sink (followed
\* by those still queued) are in strictly increasing sequence order, and every
\* non-empty chunk handed over is exactly one of: written to the sink, still
\* queued, or discarded by the buffer-budget trim.
C1_SinkInSequenceOrder ==
  \A S \in AudioSegs :
    SingleSegment(S) =>
      /\ \A q \in Seqs : q < audioSeqRef.nextSeq => arrivals[<<S, q>>] = 1
      /\ audioSeqRef.nextSeq \in Seqs => arrivals[<<S, audioSeqRef.nextSeq>>] = 0
      /\ StrictlyIncreasing(SinkSeqs \o QueueSeqs)
      /\ Range(SinkSeqs \o QueueSeqs) \cup {d.seq : d \in pcm.dropped} = Handed(S)
      /\ Range(SinkSeqs \o QueueSeqs) \cap {d.seq : d \in pcm.dropped} = {}
      /\ pcm.lost = {}

\* chunks 0..NumSeqs-1 arrived out of order and the sink received all of them, in order
C1_Witness ==
  /\ SingleSegment(1) /\ GapFree(1, NumSeqs) /\ everHeld
  /\ emptyKeys = {}
  /\ SinkSeqs = Ascending(Seqs)

\* C2: after interrupt() has returned, no chunk of the interrupted segment is
\* written to the audio sink.
C2_NoWriteAfterInterrupt == staleWrites = {}

\* the audio duration held in the reorder buffer
HeldMs ==
  LET b == audioSeqRef.buffer
      RECURSIVE Sum(_)
      Sum(D) == IF D = {} THEN 0
                ELSE LET k == CHOOSE x \in D : TRUE
                     IN DurationMs(b[k].len, pcm.sampleRate) + Sum(D \ {k})
  IN Sum(DOMAIN b)

\* C3: the chunks held behind a missing sequence number stay within the buffer
\* budget (the oldest held chunk is dropped when the budget is exceeded), so the
\* held set does not grow without bound.
C3_HeldWithinBudget == HeldMs <= maxBufferMs

\* the end state of the playback scheduler after stopPlayback
SchedulerStopped ==
  /\ ~pcm.track
  /\ pcm.queue = << >> /\ pcm.queuedMs = 0 /\ pcm.inFlightMs = 0
  /\ ~pcm.monitorTimer /\ pcm.clockStart = Null
  /\ ~pcm.isPlaying /\ pcm.playbackState = "idle"

\* C4: a call of stopPlayback leaves the scheduler stopped (sink stopped, queue
\* empty, queued and in-flight durations zero, monitor timer cleared, playback
\* state idle), and a second call right after the first changes nothing.
C4_InterruptIdempotent ==
  [][stopStreak' > 0 => (SchedulerStopped' /\ (stopStreak > 0 => pcm' = pcm /\ audioSeqRef' = audioSeqRef))]_vars

\* interrupt ran twice in a row after audio had been written and more was held
C4_Witness ==
  /\ stopStreak = 2
  /\ Len(pcm.sink) > 0
  /\ DOMAIN audioSeqRef.buffer # {}

(***************************************************************************)
(* Turn taking: the server's state messages, the VAD's speech-start event  *)
(* and interrupt(), around the playback of one segment whose chunks arrive *)
(* in full 600 ms payloads.                                                *)
(***************************************************************************)
NextTurn ==
  \/ \E st \in ServerStates : StateChange(st)
  \/ SpeechStart
  \/ Interrupt
  \/ \E seq \in Seqs : AudioChunk(1, seq, 28800, NoRate)
  \/ PcmInitSettled
  \/ ClockTick
  \/ PcmMonitor

SpecTurn == Init /\ [][NextTurn]_vars

\* C7: when the VAD reports speech start while the AI is speaking, the
\* speech-start handler itself sends an interrupt envelope, stops the playback
\* scheduler and clears the AI-speaking flag.
C7_SpeechStartInterrupts ==
  [][(SpeechStart /\ aiSpeakingRef)
       => (lastSent' = "interrupt" /\ SchedulerStopped' /\ ~aiSpeakingRef')]_vars

(***************************************************************************)
(* Segments: text deltas, audio_end and board events of two segments.  A   *)
(* text is the sequence of the segment ids of the deltas it was built      *)
(* from; a board is the id of the segment it was drawn for, or NoBoard for *)
(* an empty content.                                                       *)
(***************************************************************************)
NoBoard == 0
Boards(segmentId) == {NoBoard, segmentId}

\* onBoard inserting the entry by segment id
onBoardBySegmentId(segs, speech, segmentId, board) ==
  LET e == [segment_id |-> segmentId, speech |-> speech, board |-> board]
      before == SelectSeq(segs, LAMBDA x : x.segment_id <= segmentId)
      after == SelectSeq(segs, LAMBDA x : x.segment_id > segmentId)
  IN before \o <<e>> \o after

\* onBoard: newSegments
onBoard(segs, speech, segmentId, board) ==
  Append(segs, [segment_id |-> segmentId, speech |-> speech, board |-> board])

\* onBoard: newBoardMarkup, the non-empty boards in list order
newBoardMarkup(segs) ==
  SelectSeq([i \in 1..Len(segs) |-> segs[i].board], LAMBDA x : x # NoBoard)

\* onAiTextDelta without the segment comparison: every delta is appended
AiTextDeltaAnySegment(segmentId) ==
  /\ Receiving
  /\ Len(displayedText) < MaxTextLen
  /\ displayedText' = Append(displayedText, segmentId)
  /\ currentSpeech' = displayedText'
  /\ aiText' = displayedText'
  /\ aiFullText' = displayedText'
  /\ stopStreak' = 0
  /\ UNCHANGED <<playbackVars, status, currentSegmentId, segments, boardMarkup,
                 recorder, sessionVars, arrivalVars, disturbed, interruptedSegs, staleWrites,
                 boardLog>>

\* server ai_text_delta -> onAiTextDelta
AiTextDelta(segmentId) ==
  /\ Receiving
  /\ Len(displayedText) < MaxTextLen
  /\ IF segmentId # currentSegmentId
       THEN UNCHANGED textVars
       ELSE LET newDisplayed == Append(displayedText, segmentId)
            IN /\ displayedText' = newDisplayed
               /\ currentSpeech' = newDisplayed
               /\ aiText' = newDisplayed
               /\ aiFullText' = newDisplayed
  /\ stopStreak' = 0
  /\ UNCHANGED <<playbackVars, status, currentSegmentId, segments, boardMarkup,
                 recorder, sessionVars, arrivalVars, disturbed, interruptedSegs, staleWrites,
                 boardLog>>

\* server audio_end -> onAudioEnd
AudioEnd(segmentId) ==
  /\ Receiving
  /\ IF segmentId # currentSegmentId
       THEN UNCHANGED <<displayedText, aiText>>
       ELSE displayedText' = currentSpeech /\ aiText' = currentSpeech
  /\ stopStreak' = 0
  /\ UNCHANGED <<playbackVars, status, currentSegmentId, currentSpeech, aiFullText,
                 segments, boardMarkup, recorder, sessionVars, arrivalVars, disturbed,
                 interruptedSegs, staleWrites, boardLog>>

\* server board -> onBoard
Board(segmentId, board) ==
  /\ Receiving
  /\ Len(segments) < MaxSegments
  /\ segments' = onBoard(segments, currentSpeech, segmentId, board)
  /\ boardMarkup' = newBoardMarkup(segments')
  /\ boardLog' = Append(boardLog, segmentId)
  /\ stopStreak' = 0
  /\ UNCHANGED <<playbackVars, status, currentSegmentId, textVars, recorder, sessionVars,
                 arrivalVars, disturbed, interruptedSegs, staleWrites>>

\* the hook's clearSegments()
clearSegments ==
  /\ segments' = << >> /\ boardMarkup' = << >>
  /\ currentSegmentId' = NoSegment
  /\ currentSpeech' = << >> /\ displayedText' = << >>
  /\ boardLog' = << >>
  /\ stopStreak' = 0
  /\ UNCHANGED <<playbackVars, status, aiText, aiFullText, recorder, sessionVars, arrivalVars,
                 disturbed, interruptedSegs, staleWrites>>

NextSegments ==
  \/ \E s \in SegIds : SegmentStart(s)
  \/ \E s \in SegIds : AiTextDelta(s)
  \/ \E s \in SegIds : AudioEnd(s)
  \/ \E s \in SegIds : \E b \in Boards(s) : Board(s, b)
  \/ \E s \in SegIds : AudioChunk(s, 0, 0, NoRate)
  \/ \E st \in {"processing", "speaking"} : StateChange(st)
  \/ clearSegments

SpecSegments == Init /\ [][NextSegments]_vars

SegmentIds == [i \in 1..Len(segments) |-> segments[i].segment_id]

\* C5: the finalized list is extended only by a board event and lists the
\* segments in board-arrival order: its segment ids are exactly the ids of the
\* board events received since the list was last cleared, in arrival order.
C5_FinalizedInBoardOrder == SegmentIds = boardLog

\* segment 1 started first and got its text, yet the board of segment 2 arrived
\* first: the list holds segment 2 before segment 1
C5_Witness ==
  /\ SegmentIds = <<2, 1>>
  /\ \E i \in 1..Len(segments) : Len(segments[i].speech) > 0

\* C6: every finalized entry pairs its segment id with speech text built from
\* the text deltas of that same segment only.
C6_EntryHasOwnSpeech ==
  \A i \in 1..Len(segments) :
    \A j \in 1..Len(segments[i].speech) :
      segments[i].speech[j] = segments[i].segment_id

(***************************************************************************)
(* The session: the transport's socket events and timers, and the hook's   *)
(* disconnect() with AudioService.cleanup(), cut at their awaits, around   *)
(* one 600 ms audio chunk whose player initialisation may still be awaited.*)
(***************************************************************************)
CloseCodes == {NormalClosure, AbnormalClosure}
\* the reason argument of disconnect(): its default, and one a screen passes
Reasons == {"unknown", "user_end"}

\* the hook's onConnectionChange callback, on connectionStateRef; 'connecting'
\* is reported by connect() for the socket it creates, on which nothing went
\* out yet
connectionChanged(H, T) ==
  [H EXCEPT !.connectionState = T.connectionState,
            !.helloCount = IF T.connectionState = "connecting" THEN 0 ELSE @,
            !.micStartCount = IF T.connectionState = "connecting" THEN 0 ELSE @]

\* a connecting socket opens: ws.onopen, whose onConnectionChange('connected')
\* sends client_hello and starts listening under autoConnect, and whose
\* resolve() lets an initialize() awaiting this connect() go on to its own
\* `if (autoConnect) await startListening()`
SocketOpen(i) ==
  /\ i \in 1..Len(transport.sockets)
  /\ transport.sockets[i] = "connecting"
  /\ transport' = onopen(transport, i)
  /\ hookRefs' = [connectionChanged(hookRefs, transport') EXCEPT
                    !.helloCount = IF hookRefs.wsRef /\ wsIsOpen(transport')
                                     THEN @ + 1 ELSE @,
                    !.connectAwaited = IF @ = i THEN NoSocket ELSE @]
  /\ status' = "listening"
  /\ lastSent' = IF hookRefs.wsRef /\ wsIsOpen(transport') THEN "client_hello"
                 ELSE lastSent
  /\ LET R1 == autoListen(hookRefs.autoConnect, hookRefs.audioRef, recorder)
     IN recorder' = IF hookRefs.connectAwaited = i
                      THEN autoListen(hookRefs.autoConnect, hookRefs.audioRef, R1)
                      ELSE R1
  /\ stopStreak' = 0
  /\ UNCHANGED <<audioSeqRef, pcm, aiSpeakingRef, currentSegmentId, textVars,
                 segments, boardMarkup, disconnectPc, arrivalVars, disturbed,
                 interruptedSegs, staleWrites, boardLog>>

\* a socket reports an error: ws.onerror, whose onConnectionChange('error')
\* sets the status 'error' and whose reject() sends an initialize() awaiting
\* this connect() to its catch
SocketError(i) ==
  /\ i \in 1..Len(transport.sockets)
  /\ transport.sockets[i] \in {"connecting", "open"}
  /\ transport' = onerror(transport, i)
  /\ hookRefs' = IF hookRefs.connectAwaited = i
                   THEN [connectionChanged(hookRefs, transport') EXCEPT
                           !.connectAwaited = NoSocket,
                           !.error = InitFailedMessage,
                           !.reported = Append(@, InitFailedMessage)]
                   ELSE connectionChanged(hookRefs, transport')
  /\ status' = "error"
  /\ stopStreak' = 0
  /\ UNCHANGED <<playbackVars, currentSegmentId, textVars, segments, boardMarkup,
                 recorder, disconnectPc, arrivalVars, disturbed, interruptedSegs,
                 staleWrites, boardLog>>

\* the reason of a close event: none, the server's two timeouts, and the one
\* ConversationWebSocket.disconnect passes to close()
NoReason == ""
ListeningTimeout == "Listening timeout"
IdleTimeout == "Idle timeout"
UserEnded == "User ended conversation"
CloseReasons == {NoReason, ListeningTimeout, IdleTimeout, UserEnded}

\* onClose: closeMessage
closeMessage(code, reason) ==
  IF reason = ListeningTimeout THEN ListeningTimeoutMessage
  ELSE IF reason = IdleTimeout THEN IdleTimeoutMessage
  ELSE IF reason = UserEnded THEN NoMessage
  ELSE IF code # NormalClosure THEN ConnectionLostMessage
  ELSE NoMessage

\* onClose, on the hook's closeReason and the screen's onError callback
onClose(H, code, reason) ==
  LET m == closeMessage(code, reason)
  IN IF m # NoMessage
       THEN [H EXCEPT !.closeReason = m, !.reported = Append(@, m)]
       ELSE H

\* a socket closes: ws.onclose, whose onConnectionChange('disconnected') sets
\* the status 'error' and whose onClose sets it 'idle' when it has a message;
\* then the reconnect decision.  A socket closed by close(1000) reports code
\* 1000.
SocketCloseReason(i, code, reason) ==
  /\ i \in 1..Len(transport.sockets)
  /\ transport.sockets[i] \in {"connecting", "open", "closing"}
  /\ transport.sockets[i] = "closing" => code = NormalClosure
  /\ transport' = onclose(transport, i, code)
  /\ hookRefs' = onClose(connectionChanged(hookRefs, transport'), code, reason)
  /\ status' = IF closeMessage(code, reason) # NoMessage THEN "idle" ELSE "error"
  /\ stopStreak' = 0
  /\ UNCHANGED <<playbackVars, currentSegmentId, textVars, segments, boardMarkup,
                 recorder, disconnectPc, arrivalVars, disturbed, interruptedSegs,
                 staleWrites, boardLog>>

\* a socket closes with an empty reason
SocketClose(i, code) == SocketCloseReason(i, code, NoReason)

\* a reconnect timer set by ws.onclose fires: connect()
ReconnectTimer ==
  /\ transport.timers > 0
  /\ wsIsOpen(transport) \/ Len(transport.sockets) < MaxSockets
  /\ transport' = connect([transport EXCEPT !.timers = @ - 1])
  /\ hookRefs' = connectionChanged(hookRefs, transport')
  /\ stopStreak' = 0
  /\ UNCHANGED <<playbackVars, stateVars, recorder, disconnectPc, arrivalVars,
                 disturbed, interruptedSegs, staleWrites, boardLog>>

\* the ping interval fires: sendPing, sent if this.ws is open
PingTimer ==
  /\ transport.pingInterval
  /\ lastSent' = IF wsIsOpen(transport) THEN "ping" ELSE lastSent
  /\ stopStreak' = 0
  /\ UNCHANGED <<audioSeqRef, pcm, aiSpeakingRef, stateVars, recorder, sessionVars,
                 arrivalVars, disturbed, interruptedSegs, staleWrites, boardLog>>

\* the end of the hook's disconnect(), after the audio part
Disconnected(k) ==
  /\ transport' = IF hookRefs.wsRef THEN wsDisconnect(transport) ELSE transport
  /\ hookRefs' = [hookRefs EXCEPT !.audioRef = FALSE, !.wsRef = FALSE,
                                  !.connectionState = "disconnected",
                                  !.streamId = NoStream,
                                  !.closeReason = NoMessage]
  /\ disconnectPc' = [disconnectPc EXCEPT ![k] = "done"]
  /\ audioSeqRef' = AudioSeqInit(NoSegment)
  /\ status' = "idle"
  /\ currentSpeech' = << >> /\ displayedText' = << >>

\* the application calls disconnect(reason): ignored for the default reason
\* while connected; otherwise cleanup() runs up to stopRecording's
\* `await this.recorderModule?.stop?.()`, or, with audioRef.current already
\* null, the rest of disconnect runs at once
DisconnectCall(k, reason) ==
  /\ disconnectPc[k] = "ready"
  /\ k > 1 => disconnectPc[k - 1] # "ready"
  /\ stopStreak' = 0
  /\ IF reason = "unknown" /\ hookRefs.connectionState = "connected"
       THEN /\ disconnectPc' = [disconnectPc EXCEPT ![k] = "done"]
            /\ UNCHANGED <<audioSeqRef, status, currentSpeech, displayedText,
                           recorder, transport, hookRefs>>
       ELSE IF hookRefs.audioRef
              THEN /\ recorder' = nativeRecStop(stopVAD(recorder), k)
                   /\ disconnectPc' = [disconnectPc EXCEPT ![k] = "stopping"]
                   /\ UNCHANGED <<audioSeqRef, status, currentSpeech, displayedText,
                                  transport, hookRefs>>
              ELSE /\ Disconnected(k)
                   /\ UNCHANGED recorder
  /\ UNCHANGED <<pcm, aiSpeakingRef, lastSent, currentSegmentId, aiText, aiFullText,
                 segments, boardMarkup, arrivalVars, disturbed, interruptedSegs,
                 staleWrites, boardLog>>

\* the native stop answers: stopRecording finishes, and cleanup() goes on to
\* stopPlayback (whose 'idle' report calls startListening) and issues
\* `await this.recorderModule?.release?.()`
StopSettled ==
  /\ Len(recorder.pending) > 0
  /\ Head(recorder.pending).kind = "stop"
  /\ Head(recorder.pending).call > 0
  /\ LET k == Head(recorder.pending).call
         R1 == stopRecordingSettled([recorder EXCEPT !.pending = Tail(@)])
         R2 == autoListen(hookRefs.autoConnect, hookRefs.audioRef, R1)
     IN /\ recorder' = nativeRecRelease(R2, k)
        /\ disconnectPc' = [disconnectPc EXCEPT ![k] = "releasing"]
  /\ pcm' = stopPlayback(pcm)
  /\ stopStreak' = IF stopStreak < 2 THEN stopStreak + 1 ELSE 2
  /\ UNCHANGED <<audioSeqRef, aiSpeakingRef, lastSent, stateVars, transport, hookRefs,
                 arrivalVars, disturbed, interruptedSegs, staleWrites, boardLog>>

\* startListeningSettled without the restart of the sequence counter
startListeningSettledKeepsCounter(H, T, session) ==
  [H EXCEPT !.streamId = H.streams + 1,
            !.streams = @ + 1,
            !.streamSession = session,
            !.announced = IF H.wsRef /\ T.connectionState = "connected" /\ wsIsOpen(T)
                            THEN @ \cup {H.streams + 1} ELSE @,
            !.micStartCount = IF H.wsRef /\ T.connectionState = "connected" /\ wsIsOpen(T)
                                THEN @ + 1 ELSE @]

\* startListening after `await audioRef.current.startRecording()` returned
\* true: the sequence counter restarts, a new stream id is made, and mic_start
\* is sent if the transport reports connected (and the socket is open)
startListeningSettled(H, T, session) ==
  [H EXCEPT !.sequence = 1,
            !.streamId = H.streams + 1,
            !.streams = @ + 1,
            !.streamSession = session,
            !.announced = IF H.wsRef /\ T.connectionState = "connected" /\ wsIsOpen(T)
                            THEN @ \cup {H.streams + 1} ELSE @,
            !.micStartCount = IF H.wsRef /\ T.connectionState = "connected" /\ wsIsOpen(T)
                                THEN @ + 1 ELSE @]

\* the native start answers: startRecording returns and startListening goes
\* on: mic_start if the socket is connected, status 'listening'
StartSettled ==
  /\ Len(recorder.pending) > 0
  /\ Head(recorder.pending).kind = "start"
  /\ recorder' = [recorder EXCEPT !.pending = Tail(@)]
  /\ IF Head(recorder.pending).ok
       THEN /\ hookRefs' = startListeningSettled(hookRefs, transport, recorder.session)
            /\ lastSent' = IF hookRefs'.announced # hookRefs.announced
                             THEN "mic_start" ELSE lastSent
            /\ status' = "listening"
       ELSE UNCHANGED <<hookRefs, lastSent, status>>
  /\ stopStreak' = 0
  /\ UNCHANGED <<audioSeqRef, pcm, aiSpeakingRef, currentSegmentId, textVars,
                 segments, boardMarkup, transport, disconnectPc, arrivalVars, disturbed,
                 interruptedSegs, staleWrites, boardLog>>

\* the native release answers: cleanup() finishes (recorderReady = false) and
\* disconnect() goes on: audioRef.current = null, the socket, the state
ReleaseSettled ==
  /\ Len(recorder.pending) > 0
  /\ Head(recorder.pending).kind = "release"
  /\ recorder' = [recorder EXCEPT !.pending = Tail(@), !.recorderReady = FALSE]
  /\ Disconnected(Head(recorder.pending).call)
  /\ stopStreak' = 0
  /\ UNCHANGED <<pcm, aiSpeakingRef, lastSent, currentSegmentId, aiText, aiFullText,
                 segments, boardMarkup, arrivalVars, disturbed, interruptedSegs,
                 staleWrites, boardLog>>

NextSession ==
  \/ \E i \in 1..MaxSockets : SocketOpen(i)
  \/ \E i \in 1..MaxSockets : SocketError(i)
  \/ \E i \in 1..MaxSockets, code \in CloseCodes : SocketClose(i, code)
  \/ ReconnectTimer
  \/ PingTimer
  \/ \E k \in 1..MaxDisconnects, reason \in Reasons : DisconnectCall(k, reason)
  \/ StopSettled
  \/ StartSettled
  \/ ReleaseSettled
  \/ AudioChunk(1, 0, 28800, NoRate)
  \/ PcmInitSettled

SpecSession == Init /\ [][NextSession]_vars

\* C8: after disconnect() of the transport no new socket is created by it:
\* neither the close event of the socket being closed nor a reconnect timer
\* scheduled before the disconnect leads to a connection attempt.
C8_NoSocketAfterDisconnect == transport.lateSockets = 0

\* C9: a close with a code other than 1000 schedules a reconnect only while
\* fewer than maxReconnectAttempts were made since the last open, so at most
\* maxReconnectAttempts sockets in a row are created by the reconnect timer
\* without one of them opening; a close with code 1000 schedules none.
C9_ReconnectCeiling ==
  /\ transport.reconnects <= maxReconnectAttempts
  /\ transport.reconnects + transport.timers <= maxReconnectAttempts
  /\ ~transport.normalRetry

\* the third reconnect in a row failed and the transport gave up
C9_Witness ==
  /\ transport.reconnects = maxReconnectAttempts
  /\ transport.sockets[Len(transport.sockets)] = "closed"
  /\ transport.timers = 0
  /\ ~transport.intentional

StartListeningCall ==
  /\ hookRefs.audioRef
  /\ recorder.recordingState # "recording"
  /\ recorder.session < MaxStreams
  /\ recorder.startAwaitsInit < MaxStartWaiters
  /\ recorder' = startListening(hookRefs.audioRef, recorder)
  /\ stopStreak' = 0
  /\ UNCHANGED <<playbackVars, stateVars, sessionVars, arrivalVars, disturbed,
                 interruptedSegs, staleWrites, boardLog>>

\* the application calls stopListening() while recording, no earlier call of
\* it being under way: stopRecording up to
\* `await this.recorderModule?.stop?.()`
StopListeningCall ==
  /\ hookRefs.audioRef /\ hookRefs.wsRef
  /\ recorder.recordingState = "recording"
  /\ \A i \in 1..Len(recorder.pending) : recorder.pending[i].kind # "stop"
  /\ recorder.session < MaxStreams
  /\ recorder' = nativeRecStop(recorder, 0)
  /\ stopStreak' = 0
  /\ UNCHANGED <<playbackVars, stateVars, sessionVars, arrivalVars, disturbed,
                 interruptedSegs, staleWrites, boardLog>>

\* stopListening after `await audioRef.current.stopRecording()`: mic_end with
\* the last sequence number and the status 'processing', if connected
stopListeningSettled(H, T) ==
  IF H.wsRef /\ T.connectionState = "connected" /\ H.streamId # NoStream /\ wsIsOpen(T)
    THEN [H EXCEPT !.ended = @ \cup {H.streamId}]
    ELSE H

\* the native stop asked for by stopListening() answers
StopListeningSettled ==
  /\ Len(recorder.pending) > 0
  /\ Head(recorder.pending).kind = "stop"
  /\ Head(recorder.pending).call = 0
  /\ recorder' = stopRecordingSettled([recorder EXCEPT !.pending = Tail(@)])
  /\ hookRefs' = stopListeningSettled(hookRefs, transport)
  /\ lastSent' = IF hookRefs'.ended # hookRefs.ended THEN "mic_end" ELSE lastSent
  /\ status' = IF hookRefs.wsRef /\ transport.connectionState = "connected"
                 THEN "processing" ELSE status
  /\ stopStreak' = 0
  /\ UNCHANGED <<audioSeqRef, pcm, aiSpeakingRef, currentSegmentId, textVars, segments,
                 boardMarkup, transport, disconnectPc, arrivalVars, disturbed,
                 interruptedSegs, staleWrites, boardLog>>

NextCapture ==
  \/ \E db \in FrameLevels : Frame(db)
  \/ VadTick
  \/ StartSettled
  \/ DisconnectCall(1, "user_end")
  \/ StopSettled
  \/ ReleaseSettled

SpecCapture == Init /\ [][NextCapture]_vars

(***************************************************************************)
(* Properties of the capture path (specification SpecCapture).             *)
(***************************************************************************)
\* a VAD callback ran in this step
SpeechStartFired == recorder'.stamp # recorder.stamp /\ recorder'.lastEvent = "start"
SilenceFired == recorder'.stamp # recorder.stamp /\ recorder'.lastEvent = "silence"

\* the current run of silence frames received while speaking has lasted the
\* silence duration
RunReached ==
  /\ recorder.isSpeaking
  /\ recorder.runStart # Null
  /\ recorder.now - recorder.runStart >= SILENCE_DURATION

\* C13: onSilenceDetected runs only on a silence frame that continues a run of
\* silence frames, received while speaking, begun at least SILENCE_DURATION
\* (1500 ms) earlier, and it does run on such a frame; a speech frame sets the
\* silence timer back to null, so the next silence frame begins a new run.
C13_SilenceAfterContinuousRun ==
  [][/\ SilenceFired => RunReached
     /\ \A db \in FrameLevels :
          Frame(db) =>
            /\ (db <= SILENCE_THRESHOLD /\ RunReached) => SilenceFired
            /\ db > SILENCE_THRESHOLD => recorder'.silenceStartTime = Null]_vars

\* onSilenceDetected has run in the first recording, at the end of the
\* clock's range
C13_Witness ==
  /\ recorder.lastEvent = "silence" /\ ~recorder.isSpeaking
  /\ recorder.session = 1 /\ recorder.recordingState = "recording"
  /\ recorder.now = MaxVadClockMs

\* C14: onSpeechStart runs exactly on a speech frame received while not
\* speaking, and within one recording the VAD callbacks alternate, beginning
\* with onSpeechStart: onSpeechStart never follows onSpeechStart, and
\* onSilenceDetected follows nothing but onSpeechStart.
C14_EdgeTriggeredAlternation ==
  [][/\ SpeechStartFired => recorder.lastEvent # "start"
     /\ SilenceFired => recorder.lastEvent = "start"
     /\ \A db \in FrameLevels :
          Frame(db) =>
            (SpeechStartFired <=> (db > SILENCE_THRESHOLD /\ ~recorder.isSpeaking))]_vars

\* C15: when the VAD runs onSilenceDetected, the engine stops capture, sends
\* mic_end for the active stream with the sequence number of the last chunk
\* sent, and sets the status to 'processing'.  Stopping capture is
\* asynchronous, so the step of the callback must at least have asked the
\* native recorder to stop (mic_end and the status follow its answer, see
\* StopListeningSettled).
C15_SilenceEndsTurn ==
  [][SilenceFired =>
       /\ ~recorder'.nativeRecording
       /\ \E i \in 1..Len(recorder'.pending) : recorder'.pending[i].kind = "stop"]_vars

(***************************************************************************)
(* The microphone stream: frames, startListening() and stopListening(),    *)
(* the opening and the loss of the first sockets with the reconnects that  *)
(* follow, and the server's state messages speaking and idle.              *)
(***************************************************************************)
NextMic ==
  \/ \E db \in FrameLevels : Frame(db)
  \/ StartListeningCall
  \/ StopListeningCall
  \/ StopListeningSettled
  \/ StartSettled
  \/ \E i \in 1..MaxMicSockets : SocketOpen(i)
  \/ \E i \in 1..MaxMicSockets : SocketClose(i, AbnormalClosure)
  \/ ReconnectTimer
  \/ StateChange("speaking")
  \/ StateChange("idle")

SpecMic == Init /\ [][NextMic]_vars

\* a user_audio_chunk went out on the socket in this step
ChunkSent == Len(hookRefs'.sent) > Len(hookRefs.sent)

\* C16: no user_audio_chunk is sent while AI audio is being played back
\* (the server state is speaking or the playback state is playing); frames
\* captured then go to the VAD only.
C16_NoChunkDuringPlayback ==
  [][ChunkSent => (~aiSpeakingRef /\ pcm.playbackState # "playing")]_vars

\* C17: every user_audio_chunk sent carries the stream id made for the
\* recording it was captured in (never the id or the counter of an earlier
\* recording's stream), and the mic_start of that stream id was sent.
C17_OneActiveStream ==
  \A i \in 1..Len(hookRefs.sent) :
    /\ hookRefs.sent[i].streamId \in hookRefs.announced
    /\ hookRefs.sent[i].streamSession = hookRefs.sent[i].session

\* how many chunks of the stream of the i-th chunk sent went out before it
EarlierOfStream(i) ==
  Cardinality({j \in 1..(i - 1) : hookRefs.sent[j].streamId = hookRefs.sent[i].streamId})

C19_StartRecordingIdempotent ==
  recorder.recordingState = "recording" => startRecording(recorder) = recorder

\* recording, with speech in progress and a silence run being timed
C19_Witness ==
  /\ recorder.recordingState = "recording" /\ recorder.recorderReady
  /\ recorder.nativeRecording /\ recorder.pending = << >>
  /\ recorder.isSpeaking /\ recorder.silenceStartTime # Null

(***************************************************************************)
(* The recorder's life from the construction of the AudioService: the      *)
(* initialisation of the native recorder, start/stop cycles and teardown.  *)
(***************************************************************************)
InitRecorder ==
  /\ InitPlayback /\ InitHistory
  /\ status = "connecting"
  /\ currentSegmentId = NoSegment
  /\ currentSpeech = << >> /\ displayedText = << >>
  /\ aiText = << >> /\ aiFullText = << >>
  /\ segments = << >> /\ boardMarkup = << >>
  /\ recorder = RecorderFresh
  /\ transport = TransportFresh
  /\ hookRefs = HookRefsFresh
  /\ disconnectPc = [k \in 1..MaxDisconnects |-> "ready"]

\* AudioService.initialize() reaches ensureRecorderReady; the native init it
\* may issue will succeed (ok) or be rejected
EnsureRecorderReadyCall(ok) ==
  /\ hookRefs.audioRef
  /\ recorder.readyCalls < MaxReadyCalls
  /\ recorder' = ensureRecorderReady(recorder, ok)
  /\ stopStreak' = 0
  /\ UNCHANGED <<playbackVars, stateVars, sessionVars, arrivalVars, disturbed,
                 interruptedSegs, staleWrites, boardLog>>

\* the native init answers: recorderReady is set if it succeeded,
\* initInFlight is cleared, and the awaiting callers go on: the suspended
\* startRecording calls, and the hook's initialize(), which creates the
\* ConversationWebSocket and connects, or reports the error
RecorderInitSettled ==
  /\ Len(recorder.pending) > 0
  /\ Head(recorder.pending).kind = "init"
  /\ LET ok == Head(recorder.pending).ok
         R1 == [recorder EXCEPT !.pending = Tail(@),
                                !.recorderReady = (@ \/ ok),
                                !.initInFlight = FALSE,
                                !.startAwaitsInit = 0]
     IN /\ recorder' = resumeStarts(R1, recorder.startAwaitsInit)
        /\ IF hookRefs.initializing /\ ok
             THEN /\ transport' = [connect(TransportFresh) EXCEPT !.reconnects = 0]
                  /\ hookRefs' = [connectionChanged(hookRefs, transport') EXCEPT
                                    !.wsRef = TRUE, !.initializing = FALSE,
                                    !.connectAwaited = transport'.ws]
                  /\ UNCHANGED status
             ELSE IF hookRefs.initializing
               THEN /\ hookRefs' = [hookRefs EXCEPT !.initializing = FALSE,
                                                    !.error = InitFailedMessage,
                                                    !.reported = Append(@, InitFailedMessage)]
                    /\ status' = "error"
                    /\ UNCHANGED transport
             ELSE UNCHANGED <<transport, hookRefs, status>>
  /\ stopStreak' = 0
  /\ UNCHANGED <<playbackVars, currentSegmentId, textVars, segments, boardMarkup,
                 disconnectPc, arrivalVars, disturbed, interruptedSegs, staleWrites,
                 boardLog>>

NextRecorder ==
  \/ \E ok \in BOOLEAN : EnsureRecorderReadyCall(ok)
  \/ RecorderInitSettled
  \/ SocketOpen(1)
  \/ StartListeningCall
  \/ StopListeningCall
  \/ StopListeningSettled
  \/ StartSettled
  \/ \E db \in FrameLevels : Frame(db)
  \/ DisconnectCall(1, "user_end")
  \/ StopSettled
  \/ ReleaseSettled

SpecRecorder == InitRecorder /\ [][NextRecorder]_vars

\* C20: the native recorder is initialised once between the service's
\* initialize and its teardown, whatever the number of start/stop cycles and
\* of concurrent readiness requests: init is never called while an init is
\* in flight or the recorder is ready, at most one AudioRecord is built, and a
\* ready recorder holds it until teardown; and the AudioRecord is released
\* only by cleanup()'s release call, never by stopRecording.
C20_InitialisedOnce ==
  /\ [](recorder.handleInits <= 1)
  /\ []((recorder.recorderReady /\ recorder.releaseCalls = 0)
          => (recorder.audioRecord /\ recorder.handleInits = 1))
  /\ [][/\ recorder'.initCalls > recorder.initCalls
             => (~recorder.recorderReady /\ ~recorder.initInFlight)
        /\ (recorder.audioRecord /\ ~recorder'.audioRecord)
             => (recorder'.releaseCalls > recorder.releaseCalls
                 /\ \E k \in 1..MaxDisconnects :
                      disconnectPc[k] = "stopping" /\ disconnectPc'[k] = "releasing")]_vars

\* after a readiness request that found the init in flight and two
\* recordings, each with its stream, the recorder was torn down: one
\* AudioRecord built, one released
C20_Witness ==
  /\ recorder.sharedCalls > 0
  /\ recorder.session >= 2 /\ hookRefs.streams >= 2
  /\ recorder.handleInits = 1 /\ recorder.handleReleases = 1
  /\ recorder.releaseCalls = 1 /\ ~recorder.recorderReady

TornDown ==
  /\ recorder.recordingState # "recording" /\ ~recorder.nativeRecording
  /\ pcm.playbackState # "playing"
  /\ ~wsIsOpen(transport)
  /\ hookRefs.connectionState = "disconnected"

\* C11: once any call of disconnect() has returned, whatever the connection
\* state and with or without a reason argument, the engine is torn down.
C11_DisconnectTearsDown ==
  [][\A k \in 1..MaxDisconnects :
       (disconnectPc[k] # "done" /\ disconnectPc'[k] = "done") => TornDown']_vars

\* C12: the teardown steps of disconnect() come in order: when cleanup() stops
\* playback the native capture is already stopped; when it asks the capture
\* module to release, the playback scheduler is stopped and its AudioTrack
\* released; and when disconnect() closes the socket, the capture handle has
\* been released.
C12_TeardownOrder ==
  [][/\ \A k \in 1..MaxDisconnects :
          (disconnectPc[k] = "stopping" /\ disconnectPc'[k] = "releasing")
            => (~recorder.nativeRecording /\ SchedulerStopped')
     /\ recorder'.releaseCalls > recorder.releaseCalls
          => (~recorder.nativeRecording /\ SchedulerStopped')
     /\ (hookRefs.wsRef /\ ~hookRefs'.wsRef)
          => (recorder.releaseCalls > 0 /\ ~recorder.audioRecord
              /\ ~recorder.nativeRecording /\ ~wsIsOpen(transport'))]_vars

\* one disconnect('user_end') ran to its end while audio was playing: capture
\* released once, socket closing
C12_Witness ==
  /\ disconnectPc[1] = "done" /\ disconnectPc[2] = "ready"
  /\ recorder.releaseCalls = 1 /\ recorder.handleReleases = 1
  /\ transport.intentional /\ transport.sockets[1] = "closing"
  /\ Len(pcm.sink) > 0

(***************************************************************************)
(* Segment switches: the audio of two segments, two sequenced chunks each  *)
(* (100 ms or 600 ms), arriving in any order and interleaving.             *)
(***************************************************************************)
SwitchSeqs == 0..(NumSwitchSeqs - 1)

NextSwitch ==
  \/ \E s \in SegIds, seq \in SwitchSeqs, len \in Lens \ {0} :
        AudioChunk(s, seq, len, NoRate)
  \/ PcmInitSettled
  \/ ClockTick
  \/ PcmMonitor

SpecSwitch == Init /\ [][NextSwitch]_vars

\* C21: a chunk for a segment other than the tracked one resets the
\* scheduler for the new segment: nextSeq restarts from 0 with an empty
\* holding buffer (then takes the chunk), the previous segment's chunks still
\* queued are flushed, and from then on no chunk of another segment than the
\* tracked one is written to the sink.
C21_SegmentSwitchResets ==
  [][/\ audioSeqRef'.segmentId # audioSeqRef.segmentId
          => /\ audioSeqRef'.nextSeq + Cardinality(DOMAIN audioSeqRef'.buffer) = 1
             /\ \A i \in 1..Len(pcm'.queue) :
                   pcm'.queue[i].data.seg = audioSeqRef'.segmentId
     /\ \A d \in NewWrites(pcm, pcm') : d.seg = audioSeqRef'.segmentId]_vars

(***************************************************************************)
(* Duplicates: the chunks of one segment (600 ms each), each of which may  *)
(* be delivered a second time.                                             *)
(***************************************************************************)
NextDuplicates ==
  \/ \E seq \in SwitchSeqs : AudioChunk(1, seq, 28800, NoRate)
  \/ \E seq \in SwitchSeqs : DuplicateChunk(1, seq, 28800, NoRate)
  \/ PcmInitSettled
  \/ ClockTick
  \/ PcmMonitor

SpecDuplicates == Init /\ [][NextDuplicates]_vars

\* C22: a sequenced chunk whose sequence number is below the expected one is
\* discarded: it is not kept in the holding buffer, and it is never written
\* to the sink (no chunk appears in the sink or the queue twice).
C22_LateDuplicateDiscarded ==
  /\ \A q \in DOMAIN audioSeqRef.buffer : q >= audioSeqRef.nextSeq
  /\ \A i, j \in 1..Len(pcm.sink) : i # j => pcm.sink[i] # pcm.sink[j]
  /\ \A i \in 1..Len(pcm.sink), j \in 1..Len(pcm.queue) : pcm.sink[i] # pcm.queue[j].data

(***************************************************************************)
(* Start gating (audio.ts, maybeStartPcmPlayback and ensurePcmReady).      *)
(***************************************************************************)
\* C23: playback never begins below the start threshold: whenever the scheduler
\* goes from not playing to playing (pcmPlayer.start(), state 'playing'), the
\* queued plus in-flight duration is at least startThresholdMs, also when an
\* interrupt or a stop ran while the player initialisation was suspended.
C23_StartsAtThreshold ==
  [][(~pcm.isPlaying /\ pcm'.isPlaying)
        => pcm'.queuedMs + pcm'.inFlightMs >= startThresholdMs]_vars

(***************************************************************************)
(* Draining (audio.ts, startPcmMonitor, updateInFlight, stopPcmPlayback).  *)
(* The interval timer of startPcmMonitor fires every MonitorPeriodMs while *)
(* it is set, and Date.now() advances: both steps are weakly fair.  The    *)
(* chunks are finitely many, so every behaviour ends with none arriving.   *)
(***************************************************************************)
SpecDrain == Init /\ [][NextSwitch]_vars /\ WF_vars(ClockTick) /\ WF_vars(PcmMonitor)

\* the scheduler stopped cleanly: sink released, nothing queued or in flight,
\* monitor timer cleared, state reported idle
StoppedCleanly ==
  /\ ~pcm.isPlaying /\ ~pcm.track /\ ~pcm.monitorTimer
  /\ pcm.queuedMs + pcm.inFlightMs = 0 /\ Len(pcm.queue) = 0
  /\ pcm.playbackState = "idle"

\* C24: once playback has started and no further chunks arrive, playback
\* eventually stops cleanly: the sink is stopped and the state returns to idle;
\* the state never stays playing forever.
C24_PlaybackEventuallyStops ==
  (pcm.isPlaying \/ pcm.playbackState = "playing") ~> StoppedCleanly

\* playback started, chunks were written, and the monitor stopped it
C24_Witness ==
  /\ StoppedCleanly
  /\ Len(pcm.sink) > 0
  /\ Len(pcm.initPending) = 0

(***************************************************************************)
(* Text deltas and segment_start (useConversation.ts, onAiTextDelta and    *)
(* onSegmentStart), checked on the segments specification.                 *)
(***************************************************************************)
\* C25: a text delta for segment S is appended to the speech text only if S is
\* the currently tracked segment, and then at the end of the text, so matching
\* deltas stand in arrival order; a delta for any other segment leaves the
\* whole conversation state unchanged.
C25_DeltaOnlyForTrackedSegment ==
  [][\A s \in SegIds :
       AiTextDelta(s) =>
         IF s # currentSegmentId
           THEN UNCHANGED <<stateVars, playbackVars, recorder, sessionVars>>
           ELSE /\ displayedText' = Append(displayedText, s)
                /\ currentSpeech' = displayedText'
                /\ aiText' = displayedText' /\ aiFullText' = displayedText'
                /\ UNCHANGED <<status, currentSegmentId, segments, boardMarkup>>]_vars

\* two deltas of the tracked segment were appended, one after the other
C25_Witness ==
  /\ currentSegmentId \in SegIds
  /\ Len(displayedText) = MaxTextLen
  /\ \A j \in 1..Len(displayedText) : displayedText[j] = currentSegmentId
  /\ currentSpeech = displayedText

\* C26: a server segment_start resets the text accumulators and the audio
\* sequence tracking for the new segment id and leaves the list of finalized
\* segments and the combined board markup unchanged.
C26_SegmentStartResets ==
  [][\A s \in SegIds :
       SegmentStart(s) =>
         /\ audioSeqRef' = AudioSeqInit(s)
         /\ currentSegmentId' = s
         /\ currentSpeech' = << >> /\ displayedText' = << >>
         /\ aiText' = << >> /\ aiFullText' = << >>
         /\ UNCHANGED <<segments, boardMarkup>>]_vars

\* segment 1 was finalized with its text and its board, then segment 2 started
C26_Witness ==
  /\ Len(segments) > 0 /\ Len(segments[1].speech) > 0 /\ Len(boardMarkup) > 0
  /\ currentSegmentId = 2 /\ audioSeqRef = AudioSeqInit(2)
  /\ currentSpeech = << >> /\ displayedText = << >>
  /\ aiText = << >> /\ aiFullText = << >>

(***************************************************************************)
(* Socket closes and what the user sees of them (useConversation.ts,       *)
(* onConnectionChange and onClose; part_002, ws.onclose): closes with      *)
(* every code and reason, reconnects, and the user ending the session.     *)
(***************************************************************************)
NextClose ==
  \/ \E i \in 1..MaxSockets : SocketOpen(i)
  \/ \E i \in 1..MaxSockets, code \in CloseCodes, reason \in CloseReasons :
        SocketCloseReason(i, code, reason)
  \/ ReconnectTimer
  \/ DisconnectCall(1, "user_end")
  \/ StopSettled
  \/ StartSettled
  \/ ReleaseSettled

SpecClose == Init /\ [][NextClose]_vars

\* the step hands message m to the screen: closeReason set, onError called
Produces(m) ==
  /\ hookRefs'.closeReason = m
  /\ Len(hookRefs'.reported) = Len(hookRefs.reported) + 1
  /\ hookRefs'.reported[Len(hookRefs'.reported)] = m

\* the step hands no message to the screen
ProducesNothing ==
  /\ hookRefs'.closeReason = hookRefs.closeReason
  /\ hookRefs'.error = hookRefs.error
  /\ hookRefs'.reported = hookRefs.reported

\* C27: a close that the transport answers with a scheduled reconnect never
\* produces the terminal 'connection lost, please restart' message, while a
\* listening timeout and an idle timeout each produce their own message.
C27_TerminalVsTransient ==
  [][\A i \in 1..MaxSockets, code \in CloseCodes, reason \in CloseReasons :
       SocketCloseReason(i, code, reason) =>
         /\ transport'.timers > transport.timers => ~Produces(ConnectionLostMessage)
         /\ reason = ListeningTimeout => Produces(ListeningTimeoutMessage)
         /\ reason = IdleTimeout => Produces(IdleTimeoutMessage)]_vars

\* C28: a close with code 1000 that carries no timeout reason produces no
\* user-facing error: the status does not become 'error', neither error nor
\* closeReason is set, and the error callback is not invoked.
C28_NormalCloseIsSilent ==
  [][\A i \in 1..MaxSockets, reason \in {NoReason, UserEnded} :
       SocketCloseReason(i, NormalClosure, reason) =>
         /\ status' = "error" => status = "error"
         /\ ProducesNothing]_vars

(***************************************************************************)
(* The end of an AI turn (useConversation.ts, onDone), with the hook's     *)
(* autoConnect option on or off.  With the option off the screen starts    *)
(* and stops listening itself: the session begins connected, the recorder  *)
(* initialised and idle, no stream id made yet.                            *)
(***************************************************************************)
HookRefsManual ==
  [ HookRefsInit EXCEPT !.autoConnect = FALSE, !.streamId = NoStream,
                        !.streams = 0, !.streamSession = 0, !.announced = {},
                        !.micStartCount = 0 ]

RecorderManual ==
  [ RecorderInit EXCEPT !.recordingState = "idle", !.nativeRecording = FALSE,
                        !.session = 0 ]

InitDone ==
  /\ InitPlayback /\ InitState /\ InitHistory
  /\ transport = TransportInit
  /\ disconnectPc = [k \in 1..MaxDisconnects |-> "ready"]
  /\ \/ hookRefs = HookRefsInit /\ recorder = RecorderInit
     \/ hookRefs = HookRefsManual /\ recorder = RecorderManual

\* server done -> onDone: the flag is cleared, the status set, startListening()
Done ==
  /\ Receiving
  /\ aiSpeakingRef' = FALSE
  /\ status' = "listening"
  /\ recorder' = startListening(hookRefs.audioRef, recorder)
  /\ stopStreak' = 0
  /\ UNCHANGED <<audioSeqRef, pcm, lastSent, currentSegmentId, textVars, segments,
                 boardMarkup, sessionVars, arrivalVars, disturbed, interruptedSegs,
                 staleWrites, boardLog>>

NextDone ==
  \/ Done
  \/ StateChange("speaking")
  \/ StartListeningCall
  \/ StopListeningCall
  \/ StopListeningSettled
  \/ StartSettled
  \/ \E db \in FrameLevels : Frame(db)

SpecDone == InitDone /\ [][NextDone]_vars

\* C29: on a server done the AI-speaking flag is cleared, and a recording (a
\* new MicStream) is started only if autoConnect is on and capture is not
\* already recording; with autoConnect off, done starts none.
C29_DoneStartsStreamOnlyUnderAutoListen ==
  [][Done =>
       /\ ~aiSpeakingRef'
       /\ recorder'.session # recorder.session
            => (hookRefs.autoConnect /\ recorder.recordingState # "recording")]_vars

(***************************************************************************)
(* Connecting (useConversation.ts, initialize, onConnectionChange and      *)
(* startListening): initialize() from its start, the socket opening,       *)
(* failing and being reconnected by the transport, under autoConnect.      *)
(***************************************************************************)
NextConnect ==
  \/ \E ok \in BOOLEAN : EnsureRecorderReadyCall(ok)
  \/ RecorderInitSettled
  \/ \E i \in 1..MaxSockets : SocketOpen(i)
  \/ \E i \in 1..MaxSockets : SocketError(i)
  \/ \E i \in 1..MaxSockets : SocketCloseReason(i, AbnormalClosure, NoReason)
  \/ ReconnectTimer
  \/ StartSettled
  \/ \E db \in FrameLevels : Frame(db)

SpecConnect == InitRecorder /\ [][NextConnect]_vars

\* the hook holds a transport whose socket is open and reported connected
Connected ==
  hookRefs.wsRef /\ wsIsOpen(transport) /\ transport.connectionState = "connected"

\* no startRecording call is still awaiting the native module
StartsSettled ==
  /\ recorder.startAwaitsInit = 0
  /\ \A i \in 1..Len(recorder.pending) : recorder.pending[i].kind # "start"

\* C30: each time the transport reports connected, exactly one client_hello
\* is sent on that connection and, under autoConnect, exactly one MicStream is
\* started on it (one mic_start once the recording has started), although the
\* connection callback and the end of initialize() both request listening.
C30_OneHelloOneStreamPerConnection ==
  Connected =>
    /\ hookRefs.helloCount = 1
    /\ hookRefs.micStartCount <= 1
    /\ (hookRefs.autoConnect /\ recorder.recordingState = "recording" /\ StartsSettled)
         => hookRefs.micStartCount = 1

(***************************************************************************)
(* Server error messages (part_002, handleMessage case 'error';            *)
(* useConversation.ts, onError), among closes, reconnects and state        *)
(* messages.  A code or a message the envelope lacks is NoCode or NoText.  *)
(***************************************************************************)
NoCode == 0
DefaultErrorCode == 5001
NoText == ""
DefaultErrorText == "Unknown error"
ErrorCodes == {NoCode, 4001}
ErrorTexts == {NoText, "busy"}

\* the hook's errorMsg, `错误 ${code}: ${message}`
errorMsg(code, message) == "Error " \o ToString(code) \o ": " \o message

\* the hook's onError doing nothing
onErrorSwallowed(H, code, message) == H

\* the hook's onError, on the hook's error and the screen's onError callback
onError(H, code, message) ==
  [H EXCEPT !.error = errorMsg(code, message),
            !.reported = Append(@, errorMsg(code, message))]

\* handleMessage case 'error': payload.code || 5001, payload.message || 'Unknown error'
errorArgs(code, message) ==
  [code |-> IF code = NoCode THEN DefaultErrorCode ELSE code,
   message |-> IF message = NoText THEN DefaultErrorText ELSE message]

\* server error -> handleMessage -> the hook's onError
ServerError(code, message) ==
  /\ Receiving
  /\ Len(hookRefs.reported) < MaxErrors
  /\ LET a == errorArgs(code, message)
     IN hookRefs' = onError(hookRefs, a.code, a.message)
  /\ status' = "error"
  /\ stopStreak' = 0
  /\ UNCHANGED <<playbackVars, currentSegmentId, textVars, segments, boardMarkup,
                 recorder, transport, disconnectPc, arrivalVars, disturbed,
                 interruptedSegs, staleWrites, boardLog>>

NextServerError ==
  \/ \E code \in ErrorCodes, message \in ErrorTexts : ServerError(code, message)
  \/ \E st \in ServerStates : StateChange(st)
  \/ \E i \in 1..MaxMicSockets : SocketOpen(i)
  \/ \E i \in 1..MaxMicSockets : SocketCloseReason(i, AbnormalClosure, NoReason)
  \/ ReconnectTimer

SpecServerError == Init /\ [][NextServerError]_vars

\* C31: a server error message is always surfaced: the error text is set from
\* its code and message, the status becomes 'error' and the error callback is
\* invoked with the text; the step neither closes a socket nor changes the
\* connection state.
C31_ServerErrorSurfaced ==
  [][\A code \in ErrorCodes, message \in ErrorTexts :
       ServerError(code, message) =>
         LET a == errorArgs(code, message)
             text == errorMsg(a.code, a.message)
         IN /\ hookRefs'.error = text
            /\ status' = "error"
            /\ hookRefs'.reported = Append(hookRefs.reported, text)
            /\ transport' = transport
            /\ hookRefs'.connectionState = hookRefs.connectionState
            /\ hookRefs'.wsRef = hookRefs.wsRef]_vars

\* a server error with its own code and message was surfaced on an open socket
C31_Witness ==
  /\ hookRefs.error = errorMsg(4001, "busy")
  /\ status = "error"
  /\ Len(hookRefs.reported) > 0
  /\ hookRefs.reported[Len(hookRefs.reported)] = hookRefs.error
  /\ wsIsOpen(transport) /\ hookRefs.connectionState = "connected"

(***************************************************************************)
(* ConversationWebSocket.connect() and the Promise it returns (part_002):  *)
(* connect() called at any time, sockets opening, failing and closing,     *)
(* and the reconnect timer.                                                *)
(***************************************************************************)
\* connect() is called on the transport
ConnectCall ==
  /\ hookRefs.wsRef
  /\ wsIsOpen(transport) \/ Len(transport.sockets) < MaxSockets
  /\ transport' = [connect(transport) EXCEPT !.reconnects = transport.reconnects]
  /\ hookRefs' = connectionChanged(hookRefs, transport')
  /\ stopStreak' = 0
  /\ UNCHANGED <<playbackVars, stateVars, recorder, disconnectPc, arrivalVars,
                 disturbed, interruptedSegs, staleWrites, boardLog>>

NextTransport ==
  \/ ConnectCall
  \/ \E i \in 1..MaxSockets : SocketOpen(i)
  \/ \E i \in 1..MaxSockets : SocketError(i)
  \/ \E i \in 1..MaxSockets, code \in CloseCodes : SocketCloseReason(i, code, NoReason)
  \/ ReconnectTimer
  \/ PingTimer

SpecTransport == Init /\ [][NextTransport]_vars

\* the socket of the pending promise goes from connecting to open
PromiseSocketOpens ==
  /\ transport.sockets[transport.promiseSocket] = "connecting"
  /\ transport'.sockets[transport.promiseSocket] = "open"

\* C32: the promise of connect() resolves exactly when its socket signals
\* open and is rejected when its socket reports an error before opening;
\* connect() called while the socket is open resolves at once and creates no
\* socket.
C32_ConnectPromise ==
  [][/\ (transport.promise = "pending" /\ Len(transport'.sockets) = Len(transport.sockets))
          => /\ transport'.promise = "resolved" <=> PromiseSocketOpens
             /\ transport'.promise = "rejected"
                  <=> SocketError(transport.promiseSocket)
     /\ (ConnectCall /\ wsIsOpen(transport))
          => /\ transport'.sockets = transport.sockets
             /\ transport'.ws = transport.ws
             /\ transport'.promise = "resolved"]_vars

\* connect() was called while the socket was open and resolved at once
C32_Witness ==
  /\ transport.promise = "resolved" /\ transport.promiseSocket = NoSocket
  /\ wsIsOpen(transport)
  /\ Len(transport.sockets) > 1

(***************************************************************************)
(* Toggling the VAD (audio.ts, setVadEnabled, processVAD and the frame     *)
(* listener of startRecording): frames of every level, the clock, and      *)
(* setVadEnabled called at any time while recording.                       *)
(***************************************************************************)
\* setVadEnabled without its stopVAD() call
setVadEnabledKeepsState(R, enabled) == [R EXCEPT !.vadEnabled = enabled]

\* AudioService.setVadEnabled
setVadEnabled(R, enabled) ==
  IF R.vadEnabled = enabled THEN R
  ELSE IF ~enabled THEN stopVAD([R EXCEPT !.vadEnabled = enabled])
  ELSE [R EXCEPT !.vadEnabled = enabled]

\* setVadEnabled(enabled) is called on the audio service
SetVadEnabled(enabled) ==
  /\ hookRefs.audioRef
  /\ recorder' = [setVadEnabled(recorder, enabled) EXCEPT
                    !.runStart = IF enabled THEN @ ELSE Null]
  /\ stopStreak' = 0
  /\ UNCHANGED <<playbackVars, stateVars, sessionVars, arrivalVars, disturbed,
                 interruptedSegs, staleWrites, boardLog>>

NextVad ==
  \/ \E enabled \in BOOLEAN : SetVadEnabled(enabled)
  \/ \E db \in FrameLevels : Frame(db)
  \/ VadTick

SpecVad == Init /\ [][NextVad]_vars

\* C33: disabling the VAD clears the speaking flag and the silence timer;
\* while it is disabled a captured frame fires no VAD event and is still
\* forwarded for transmission; re-enabling starts from the not-speaking state.
C33_VadToggleKeepsThroughput ==
  /\ [](~recorder.vadEnabled
          => (~recorder.isSpeaking /\ recorder.silenceStartTime = Null))
  /\ [][/\ (recorder.vadEnabled /\ ~recorder'.vadEnabled)
             => (~recorder'.isSpeaking /\ recorder'.silenceStartTime = Null)
        /\ (~recorder.vadEnabled /\ recorder'.vadEnabled) => ~recorder'.isSpeaking
        /\ \A db \in FrameLevels :
             (Frame(db) /\ ~recorder.vadEnabled)
               => /\ recorder'.stamp = recorder.stamp
                  /\ recorder'.lastEvent = recorder.lastEvent
                  /\ status' = status
                  /\ ChunkSent]_vars

\* speech was detected, the VAD was disabled, a loud frame was forwarded
\* without an event, and the VAD was enabled again
C33_Witness ==
  /\ recorder.vadEnabled /\ ~recorder.isSpeaking
  /\ recorder.lastEvent = "start"
  /\ Len(hookRefs.sent) >= 3

(***************************************************************************)
(* Redelivery (useConversation.ts, onAudio and onSegmentStart): the first  *)
(* chunk, 600 ms long, of each of two segments, delivered once or twice in *)
(* any order, among segment_start messages.                                *)
(***************************************************************************)
NextReplay ==
  \/ \E s \in SegIds : AudioChunk(s, 0, 28800, NoRate)
  \/ \E s \in SegIds : DuplicateChunk(s, 0, 28800, NoRate)
  \/ \E s \in SegIds : SegmentStart(s)
  \/ PcmInitSettled
  \/ ClockTick
  \/ PcmMonitor

SpecReplay == Init /\ [][NextReplay]_vars

\* C34: no audio chunk, identified by its segment id and sequence number, is
\* written to the audio sink more than once, whatever the arrival sequence:
\* duplicated chunks, a repeated or late segment_start, chunks of different
\* segments interleaved.
C34_NoChunkWrittenTwice ==
  \A i, j \in 1..Len(pcm.sink) :
    (pcm.sink[i].seg = pcm.sink[j].seg /\ pcm.sink[i].seq = pcm.sink[j].seq) => i = j

(***************************************************************************)
(* Queued chunks (audio.ts, enqueuePcm, maybeStartPcmPlayback and the      *)
(* monitor).  The native init answers, the monitor's interval timer fires  *)
(* and the clock advances: the three are weakly fair.  Chunks arrive       *)
(* finitely often.                                                         *)
(***************************************************************************)
SpecQueue ==
  /\ Init /\ [][NextSwitch]_vars
  /\ WF_vars(PcmInitSettled) /\ WF_vars(ClockTick) /\ WF_vars(PcmMonitor)

\* C35: every chunk accepted into the playback queue is eventually written to
\* the sink, dropped by backpressure or cleared by a stop: once no more chunks
\* arrive, no chunk stays queued forever.
C35_QueueEventuallyEmpty == (Len(pcm.queue) > 0) ~> (Len(pcm.queue) = 0)

(***************************************************************************)
(* disconnect() racing initialize() (useConversation.ts): the effect       *)
(* cleanup calls disconnect while initialize() is suspended at             *)
(* `await audioRef.current.initialize()` (in the permission request, or in *)
(* the native init) or at `await wsRef.current.connect()`.                 *)
(***************************************************************************)
\* AudioService.initialize() gets past the permission request and the audio
\* mode and reaches ensureRecorderReady; it runs on the service object, which
\* the hook may have dropped from audioRef meanwhile
InitializeReachesRecorder(ok) ==
  /\ hookRefs.initializing
  /\ recorder.readyCalls = 0
  /\ recorder' = ensureRecorderReady(recorder, ok)
  /\ stopStreak' = 0
  /\ UNCHANGED <<playbackVars, stateVars, sessionVars, arrivalVars, disturbed,
                 interruptedSegs, staleWrites, boardLog>>

\* initialize() is suspended at one of its awaits
InitializeSuspended ==
  hookRefs.initializing \/ hookRefs.connectAwaited # NoSocket

\* disconnect(reason) is called while initialize() is suspended
DisconnectDuringInitialize ==
  /\ InitializeSuspended
  /\ DisconnectCall(1, "user_end")

NextTeardown ==
  \/ \E ok \in BOOLEAN : InitializeReachesRecorder(ok)
  \/ RecorderInitSettled
  \/ \E i \in 1..MaxMicSockets : SocketOpen(i)
  \/ \E i \in 1..MaxMicSockets : SocketError(i)
  \/ \E i \in 1..MaxMicSockets : SocketCloseReason(i, NormalClosure, UserEnded)
  \/ PingTimer
  \/ DisconnectDuringInitialize
  \/ StopSettled
  \/ StartSettled
  \/ ReleaseSettled
  \/ \E db \in FrameLevels : Frame(db)

SpecTeardown == InitRecorder /\ [][NextTeardown]_vars

\* disconnect() has returned, initialize() has returned, and no native call
\* is awaited any more
BothFinished ==
  /\ disconnectPc[1] = "done"
  /\ ~InitializeSuspended
  /\ Len(recorder.pending) = 0 /\ recorder.startAwaitsInit = 0

\* C36: if disconnect runs while initialize is suspended, then once both have
\* finished no socket is open or connecting, no heartbeat timer is running,
\* and the recorder is not recording.
C36_NothingLeftAfterRace ==
  BothFinished =>
    /\ \A i \in 1..Len(transport.sockets) :
         transport.sockets[i] \notin {"open", "connecting"}
    /\ ~transport.pingInterval
    /\ recorder.recordingState # "recording" /\ ~recorder.nativeRecording

(***************************************************************************)
(* startRecording() returning false (audio.ts): the native start rejects   *)
(* after setRecordingState('recording') has run, and the catch block only  *)
(* reports the error.                                                      *)
(***************************************************************************)
\* the oldest awaited native call is a start that the module rejects
StartRejected ==
  /\ Len(recorder.pending) > 0
  /\ Head(recorder.pending).kind = "start"
  /\ ~Head(recorder.pending).ok

\* C37: if startRecording fails (returns false because the native start
\* throws), the recording state afterwards is not recording, so that a later
\* startRecording attempts to start the device again.
C37_FailedStartNotRecording ==
  [][(StartRejected /\ StartSettled) => recorder'.recordingState # "recording"]_vars

(***************************************************************************)
(* Audio format changes: chunks whose meta names no sample rate, the       *)
(* configured one, or another one (updatePcmConfig, resetPcmPlayer).       *)
(***************************************************************************)
SampleRates == {NoRate, DefaultSampleRate, 2 * DefaultSampleRate}

NextFormat ==
  \/ \E seq \in SwitchSeqs, len \in Lens \ {0}, rate \in SampleRates :
        AudioChunk(1, seq, len, rate)
  \/ PcmInitSettled
  \/ ClockTick
  \/ PcmMonitor

SpecFormat == Init /\ [][NextFormat]_vars

\* C38: in every reachable state the reported playback state is playing if
\* and only if the scheduler is actually playing (pcmIsPlaying true with its
\* monitor timer running), also after a change of audio format has reset the
\* player during playback.
C38_ReportedStateMatchesScheduler ==
  (pcm.playbackState = "playing") <=> (pcm.isPlaying /\ pcm.monitorTimer)

(***************************************************************************)
(* The buffer budget of enqueuePcm (specification SpecSwitch).             *)
(***************************************************************************)
\* C39: after every chunk enqueue, the sum of queued and in-flight audio
\* duration is at most the maximum buffer budget (maxBufferMs), whether or
\* not playback is running.
C39_BufferWithinBudget ==
  [][(\E s \in SegIds, seq \in SwitchSeqs, len \in Lens \ {0} :
        AudioChunk(s, seq, len, NoRate))
       => pcm'.queuedMs + pcm'.inFlightMs <= maxBufferMs]_vars

(***************************************************************************)
(* Text deltas and audio chunks after a segment_start (useConversation.ts, *)
(* onSegmentStart, onAiTextDelta, onAudio): segment 1 has just been        *)
(* started, and no other segment_start arrives.                            *)
(***************************************************************************)
\* the session right after the server's segment_start for segment 1
InitSegmentStarted ==
  /\ audioSeqRef = AudioSeqInit(1)
  /\ pcm = PcmInit
  /\ aiSpeakingRef = FALSE
  /\ lastSent = "client_hello"
  /\ status = "listening"
  /\ currentSegmentId = 1
  /\ currentSpeech = << >> /\ displayedText = << >>
  /\ aiText = << >> /\ aiFullText = << >>
  /\ segments = << >> /\ boardMarkup = << >>
  /\ InitSession /\ InitHistory

NextDeltas ==
  \/ \E s \in SegIds : AiTextDelta(s)
  \/ NextSwitch

SpecDeltas == InitSegmentStarted /\ [][NextDeltas]_vars

\* C40: between a segment_start for segment S and the next segment_start,
\* every text delta for S is appended to the speech text, whatever audio
\* chunks for other segment ids arrive in between.
\* (a skipped delta changes nothing, so the property is stated on states: as
\* long as the text has room, a delta for segment 1 arriving now is appended)
C40_DeltasOfStartedSegmentAppended ==
  Len(displayedText) < MaxTextLen =>
    ENABLED (/\ AiTextDelta(1)
             /\ displayedText' = Append(displayedText, 1)
             /\ currentSpeech' = displayedText')

====
